---------------------------- MODULE Spec2Model ----------------------------
(***************************************************************************)
(* A model of the underdark server (src/unnamed/part_001): the request     *)
(* handlers over the in-memory index tables, and the per-connection        *)
(* read/write goroutine pair of the websocket protocol layer.              *)
(*                                                                         *)
(* Go strings whose bytes the program inspects (numbers, comma separated   *)
(* lists, record lines, search terms) are sequences of one-character      *)
(* strings; ids and paths, which the program only uses as map keys, are    *)
(* atomic TLA+ strings.                                                    *)
(***************************************************************************)
EXTENDS Integers, Sequences, FiniteSets, TLC

(***************************************************************************)
(* Strings                                                                 *)
(***************************************************************************)

DigitChars == <<"0", "1", "2", "3", "4", "5", "6", "7", "8", "9">>

IsDigit(ch) == \E i \in 1..10 : DigitChars[i] = ch

DigitVal(ch) == (CHOOSE i \in 1..10 : DigitChars[i] = ch) - 1

\* strings.Split(s, sep) for a one-byte separator: n separators give n+1
\* pieces, and the empty string gives one empty piece.
RECURSIVE Split(_, _)
Split(s, sep) ==
    IF \A i \in 1..Len(s) : s[i] # sep
    THEN <<s>>
    ELSE LET i == CHOOSE k \in 1..Len(s) :
                      s[k] = sep /\ \A j \in 1..(k - 1) : s[j] # sep
         IN  <<SubSeq(s, 1, i - 1)>> \o Split(SubSeq(s, i + 1, Len(s)), sep)

\* strconv.Itoa for a non-negative int.
RECURSIVE Itoa(_)
Itoa(n) ==
    IF n < 10 THEN <<DigitChars[n + 1]>>
    ELSE Itoa(n \div 10) \o <<DigitChars[(n % 10) + 1]>>

(***************************************************************************)
(* 64-bit integers.  A Go int (64 bits on the served platform) is a sign   *)
(* and a magnitude of four 16-bit limbs, least significant first; a uint32 *)
(* is its two low limbs.                                                   *)
(***************************************************************************)

Limb == 2 ^ 16

ZeroMag == <<0, 0, 0, 0>>

\* acc * 10 + d on the limbs; over records a carry out of the 64 bits.
MulAdd10(acc, d) ==
    IF acc.over THEN acc
    ELSE LET t1 == acc.l[1] * 10 + d
             t2 == acc.l[2] * 10 + (t1 \div Limb)
             t3 == acc.l[3] * 10 + (t2 \div Limb)
             t4 == acc.l[4] * 10 + (t3 \div Limb)
         IN  [over |-> (t4 \div Limb) > 0,
              l    |-> <<t1 % Limb, t2 % Limb, t3 % Limb, t4 % Limb>>]

RECURSIVE MagOf(_, _)
MagOf(ds, acc) ==
    IF ds = <<>> THEN acc ELSE MagOf(Tail(ds), MulAdd10(acc, DigitVal(Head(ds))))

MaxInt64 == [neg |-> FALSE, l |-> <<Limb - 1, Limb - 1, Limb - 1, (Limb \div 2) - 1>>]

MinInt64 == [neg |-> TRUE, l |-> <<0, 0, 0, Limb \div 2>>]

\* The int64 of a sign and a parsed magnitude: a magnitude out of range
\* gives the nearest int64.
ClampInt64(neg, m) ==
    IF neg
    THEN IF \/ m.over
            \/ m.l[4] > Limb \div 2
            \/ (m.l[4] = Limb \div 2 /\ <<m.l[1], m.l[2], m.l[3]>> # <<0, 0, 0>>)
         THEN MinInt64
         ELSE [neg |-> m.l # ZeroMag, l |-> m.l]
    ELSE IF m.over \/ m.l[4] >= Limb \div 2
         THEN MaxInt64
         ELSE [neg |-> FALSE, l |-> m.l]

\* The digits of a numeral, after its optional sign.
Unsigned(s) == IF s # <<>> /\ Head(s) \in {"+", "-"} THEN Tail(s) ELSE s

\* strconv.Atoi with its error dropped, as both callers do: a syntax error
\* yields 0, a range error yields the nearest int64.
Atoi(s) ==
    IF Unsigned(s) = <<>> \/ \E i \in 1..Len(Unsigned(s)) : ~IsDigit(Unsigned(s)[i])
    THEN [neg |-> FALSE, l |-> ZeroMag]
    ELSE ClampInt64(Head(s) = "-", MagOf(Unsigned(s), [over |-> FALSE, l |-> ZeroMag]))

\* The conversion uint32(j) of an int: the low 32 bits, two's complement.
Uint32Of(j) ==
    IF ~j.neg THEN [hi |-> j.l[2], lo |-> j.l[1]]
    ELSE IF j.l[1] = 0
         THEN [hi |-> (Limb - j.l[2]) % Limb, lo |-> 0]
         ELSE [hi |-> Limb - 1 - j.l[2], lo |-> Limb - j.l[1]]

\* uint32(n) <= u for a slice length n (below 2^16 in every model state).
LenLeqU32(n, u) == u.hi > 0 \/ n <= u.lo

\* n <= j for a slice length n and an int j.
LenLeqInt(n, j) == ~j.neg /\ (<<j.l[2], j.l[3], j.l[4]>> # <<0, 0, 0>> \/ n <= j.l[1])

(***************************************************************************)
(* State                                                                   *)
(***************************************************************************)

VARIABLES
    fs,              \* the data directory: path -> bytes of the file
    variantIndices,  \* variant id -> bins, each a sequence of compound ordinals
    infoOffsets,     \* fingerprint id -> byte offset of each record
    infoLengths,     \* fingerprint id -> byte length of each record
    stats,           \* variant id -> Stats
    rpc,             \* per connection: where Client.read is
    wpc,             \* per connection: where Client.write is
    send,            \* per connection: the buffer of the channel c.send
    chClosed,        \* per connection: close(c.send) has run
    connClosed,      \* per connection: c.conn.Close() has run
    peerGone,        \* per connection: the peer no longer takes what is written
    readLeft,        \* per connection: time left until the read deadline
    tickLeft,        \* per connection: time left until the ticker fires
    tickPending,     \* per connection: a tick waits in ticker.C
    pongDue,         \* per connection: the peer owes a pong for a delivered ping
    nRecv,           \* per connection: requests decoded so far (their serial numbers)
    lastResp,        \* per connection: serial number of the last response written
    respSinceTick,   \* per connection: a response was written since the last handled tick
    rexit,           \* per connection: how Client.read returned
    wexit,           \* per connection: how Client.write returned
    crashed,         \* the process has died of an unrecovered panic
    ev               \* the last step taken, with what it did

tables == <<fs, variantIndices, infoOffsets, infoLengths, stats>>

conns == <<rpc, wpc, send, chClosed, connClosed, peerGone, readLeft, tickLeft,
           tickPending, pongDue, nRecv, lastResp, respSinceTick, rexit, wexit>>

vars == <<tables, conns, crashed, ev>>

(***************************************************************************)
(* The served catalog (the example of the specification's section 8): one  *)
(* database, one fingerprint with four records, one variant, one map.      *)
(***************************************************************************)

FpId == "db1.fp1"

VarId == "db1.fp1.v1"

MapId == "db1.fp1.v1.m1"

fingerprints == [id \in {FpId} |-> [InfosFile |-> "db1/fp1/infos"]]

variants == [id \in {VarId} |-> [CoordinatesFile |-> "db1/fp1/v1/coords"]]

colorMaps == [id \in {MapId} |-> [MapFile |-> "db1/fp1/v1/map"]]

\* One record line: id, structure, fingerprint string and coordinates,
\* separated by single spaces and ended by a line feed.
RecordLine(id, smi, fp, xy) == <<id, " ", smi, " ", fp, " ", xy, "\n">>

InfosBytes ==
    RecordLine("A", "a", "1", "w") \o RecordLine("B", "b", "2", "x") \o
    RecordLine("C", "c", "3", "y") \o RecordLine("D", "d", "4", "z")

DataDir ==
    [p \in {"db1/fp1/infos", "db1/fp1/v1/coords", "db1/fp1/v1/map"} |->
        CASE p = "db1/fp1/infos"     -> InfosBytes
          [] p = "db1/fp1/v1/coords" -> <<"0", ",", "0", "\n">>
          [] p = "db1/fp1/v1/map"    -> <<"7", "\n">>]

ExampleBins == <<<<0, 1>>, <<2>>, <<3>>>>

ExampleOffsets == <<0, 8, 16, 24>>

ExampleLengths == <<8, 8, 8, 8>>

(***************************************************************************)
(* Lookups.  A Go map read of a missing key yields the zero value.         *)
(***************************************************************************)

MapGet(m, k, zero) == IF k \in DOMAIN m THEN m[k] ELSE zero

\* os.Open: the handle of the file, or none when it cannot be opened.
Open(path) ==
    IF path \in DOMAIN fs THEN [ok |-> TRUE, bytes |-> fs[path]]
    ELSE [ok |-> FALSE, bytes |-> <<>>]

\* ioutil.ReadFile with its error dropped: the bytes, or none.
ReadFile(path) == Open(path).bytes

\* file.ReadAt(buf, off) with len(buf) = n: the bytes read and their number;
\* a nil file, or an offset at or past the end, reads nothing.
ReadAt(file, n, off) ==
    LET avail == Len(file.bytes) - off
        k     == IF ~file.ok \/ avail < 0 THEN 0 ELSE IF n < avail THEN n ELSE avail
    IN  [n |-> k, buf |-> SubSeq(file.bytes, off + 1, off + k)]

\* The result of a handler that panicked.
Fault == [Command |-> "panic"]

IsFault(r) == r.Command = "panic"

(***************************************************************************)
(* Handlers.  data is the request's positional argument list (data[0] of   *)
(* the program is data[1] here); reading an argument the list does not     *)
(* hold, or a slice position the slice does not hold, panics.              *)
(***************************************************************************)

NoBins == <<>>

underdarkInit(data) == [Command |-> "init", Content |-> "config"]

underdarkLoadVariant(data) ==
    IF Len(data) < 1 THEN Fault
    ELSE [Command |-> "load:variant",
          Content |-> ReadFile(MapGet(variants, data[1], [CoordinatesFile |-> ""]).CoordinatesFile),
          Id      |-> data[1]]

ZeroStats == [CompoundCount |-> 0, BinCount |-> 0, AvgBinSize |-> 0,
              BinHist |-> <<>>, HistMin |-> 0, HistMax |-> 0]

underdarkLoadStats(data) ==
    IF Len(data) < 1 THEN Fault
    ELSE [Command |-> "load:stats",
          Content |-> MapGet(stats, data[1], ZeroStats),
          Id      |-> data[1]]

underdarkLoadMap(data) ==
    IF Len(data) < 1 THEN Fault
    ELSE [Command |-> "load:map",
          Content |-> ReadFile(MapGet(colorMaps, data[1], [MapFile |-> ""]).MapFile),
          Id      |-> data[1]]

\* The response of load:binpreview for a bin that is out of range or empty.
NoPreview == [Command |-> "load:binpreview", Smiles |-> <<>>, Index |-> <<>>,
              BinSize |-> <<"0">>]

\* BinPreviewResponseMessage{}: every field the empty string.
ZeroPreview == [Command |-> "", Smiles |-> <<>>, Index |-> <<>>, BinSize |-> <<>>]

\* The range check of load:binpreview (line 224): the bin does not exist.
PreviewOutOfRange(nBins, binIndex) == LenLeqInt(nBins, binIndex)

\* The zero value of the entry of the catalog maps.
NoFingerprint == [InfosFile |-> ""]

InfosFileOf(fingerprintId) == MapGet(fingerprints, fingerprintId, NoFingerprint).InfosFile

\* Lines 270-275, with the record split on spaces.
PreviewOfFields(data, compounds, smiles) ==
    IF Len(smiles) < 1 THEN NoPreview
    ELSE IF Len(smiles) < 2 THEN Fault
    ELSE [Command |-> "load:binpreview",
          Smiles  |-> smiles[2],
          Index   |-> data[4],
          BinSize |-> Itoa(Len(compounds))]

\* Lines 252-253, with what ReadAt returned: buf[:rn-1] split on spaces.
PreviewOfRead(data, compounds, r) ==
    IF r.n < 1 THEN Fault
    ELSE PreviewOfFields(data, compounds, Split(SubSeq(r.buf, 1, r.n - 1), " "))

\* Lines 237-250, with the members of the bin: the record of the first.
PreviewOfCompounds(data, file, compounds, offsets, lengths) ==
    IF Len(compounds) < 1 THEN NoPreview
    ELSE IF compounds[1] >= Len(offsets) \/ compounds[1] >= Len(lengths) THEN Fault
    ELSE PreviewOfRead(data, compounds,
                       ReadAt(file, lengths[compounds[1] + 1], offsets[compounds[1] + 1]))

\* Lines 214-235, with the parsed bin ordinal, the opened file and the
\* bins of the variant.
PreviewOfBin(data, binIndex, file, bins) ==
    IF ~file.ok THEN ZeroPreview
    ELSE IF PreviewOutOfRange(Len(bins), binIndex) THEN NoPreview
    ELSE IF binIndex.neg THEN Fault
    ELSE PreviewOfCompounds(data, file, bins[binIndex.l[1] + 1],
                            MapGet(infoOffsets, data[2], <<>>),
                            MapGet(infoLengths, data[2], <<>>))

underdarkLoadBinPreview(data) ==
    IF Len(data) < 4 THEN Fault
    ELSE PreviewOfBin(data, Atoi(data[4]), Open(InfosFileOf(data[2])),
                      MapGet(variantIndices, data[3], NoBins))

\* A conversion that stops after the first piece.
StringToIntArrayFirst(arr) == <<Uint32Of(Atoi(arr[1]))>>

\* stringToIntArray: each piece through Atoi (errors only logged), then
\* converted to uint32.
stringToIntArray(arr) == [i \in 1..Len(arr) |-> Uint32Of(Atoi(arr[i]))]

\* The response of load:bin when it gives up.
NoBin(index) ==
    [Command |-> "load:bin", Smiles |-> <<>>, Ids |-> <<>>, Coords |-> <<>>,
     Fps |-> <<>>, BinIndices |-> <<>>, Index |-> index, BinSize |-> <<"0">>]

\* The range check of load:bin (lines 293 and 311): the bin does not exist.
BinOutOfRange(nBins, b) == LenLeqU32(nBins, b)

NoMembers == [ok |-> TRUE, compounds |-> <<>>, compoundBinIndices |-> <<>>]

\* The members of one more bin put in front of those collected so far.
WithBinInFront(acc, inBin, b) ==
    [ok |-> TRUE,
     compounds |-> inBin \o acc.compounds,
     compoundBinIndices |-> [j \in 1..Len(inBin) |-> b] \o acc.compoundBinIndices]

\* Lines 303-308 and 320-325: the members of one more bin, each with the
\* bin it came from.
WithBin(acc, inBin, b) ==
    [ok |-> TRUE,
     compounds |-> acc.compounds \o inBin,
     compoundBinIndices |-> acc.compoundBinIndices \o [j \in 1..Len(inBin) |-> b]]

\* Lines 293-326: the members of the listed bins, in list order (the first
\* bin and the following ones are treated alike); none as soon as a listed
\* bin is out of range.
RECURSIVE CollectBins(_, _, _, _)
CollectBins(bins, binIndices, i, acc) ==
    IF i > Len(binIndices) THEN acc
    ELSE IF BinOutOfRange(Len(bins), binIndices[i]) THEN [ok |-> FALSE]
    ELSE CollectBins(bins, binIndices, i + 1,
                     WithBin(acc, bins[binIndices[i].lo + 1], binIndices[i].lo))

NoInfos == [outcome |-> "ok", ids |-> <<>>, smiles |-> <<>>, fps |-> <<>>, coords |-> <<>>]

\* Lines 353-356: the fields of one record into the four result arrays.
WithInfos(acc, infos) ==
    [outcome |-> "ok",
     ids    |-> Append(acc.ids, infos[1]),
     smiles |-> Append(acc.smiles, infos[2]),
     fps    |-> Append(acc.fps, infos[3]),
     coords |-> Append(acc.coords, infos[3])]

\* Lines 340-351 for what ReadAt returned: the record split on spaces, or
\* why there is none.
InfosOfRead(r) ==
    IF r.n < 1 THEN [outcome |-> "panic"]
    ELSE IF Len(Split(SubSeq(r.buf, 1, r.n - 1), " ")) < 3 THEN [outcome |-> "short"]
    ELSE [outcome |-> "ok", infos |-> Split(SubSeq(r.buf, 1, r.n - 1), " ")]

\* Lines 334-361: the records of the members, in order; the loop stops at
\* the first record it cannot index, cannot slice or finds too short.
RECURSIVE FetchInfos(_, _, _, _, _, _)
FetchStep(file, offsets, lengths, compounds, i, acc, got) ==
    IF got.outcome # "ok" THEN got
    ELSE FetchInfos(file, offsets, lengths, compounds, i + 1, WithInfos(acc, got.infos))

FetchInfos(file, offsets, lengths, compounds, i, acc) ==
    IF i > Len(compounds) THEN acc
    ELSE IF compounds[i] >= Len(offsets) \/ compounds[i] >= Len(lengths)
    THEN [outcome |-> "panic"]
    ELSE FetchStep(file, offsets, lengths, compounds, i, acc,
                   InfosOfRead(ReadAt(file, lengths[compounds[i] + 1],
                                      offsets[compounds[i] + 1])))

\* Lines 363-372, or the early returns of lines 346-350.
BinOfInfos(data, got, infos) ==
    CASE infos.outcome = "panic" -> Fault
      [] infos.outcome = "short" -> NoBin(data[4])
      [] OTHER ->
            [Command    |-> "load:bin",
             Smiles     |-> infos.smiles,
             Ids        |-> infos.ids,
             Coords     |-> infos.coords,
             Fps        |-> infos.fps,
             BinIndices |-> got.compoundBinIndices,
             Index      |-> data[4],
             BinSize    |-> Itoa(Len(got.compounds))]

\* Lines 328-372, with the members collected from the listed bins.
BinOfMembers(data, infoFile, got) ==
    IF ~got.ok THEN NoBin(data[4])
    ELSE BinOfInfos(data, got,
                    FetchInfos(infoFile,
                               MapGet(infoOffsets, data[2], <<>>),
                               MapGet(infoLengths, data[2], <<>>),
                               got.compounds, 1, NoInfos))

underdarkLoadBin(data) ==
    IF Len(data) < 4 THEN Fault
    ELSE BinOfMembers(data, Open(InfosFileOf(data[2])),
                      CollectBins(MapGet(variantIndices, data[3], NoBins),
                                  stringToIntArray(Split(data[4], ",")), 1, NoMembers))

\* What load:bin does to the memory of the bin table.  The members of the
\* bins lie one bin after the other; the slice of a bin is a window of
\* len members on it whose capacity says how far append may write.  The
\* handler takes the slice of the first listed bin as compounds (line 303)
\* and appends the later bins to it (line 321).

\* The members of all bins as they lie in memory.
RECURSIVE Flat(_)
Flat(bins) == IF bins = <<>> THEN <<>> ELSE Head(bins) \o Flat(Tail(bins))

\* Where bin i starts: the number of members before it.
RECURSIVE StartOf(_, _)
StartOf(bins, i) == IF i <= 1 THEN 0 ELSE Len(bins[i - 1]) + StartOf(bins, i - 1)

\* Bins cut from one array with s[a:b]: the capacity of a bin reaches to
\* the end of the last bin.
BinCapToEnd(bins, i) == Len(Flat(bins)) - StartOf(bins, i)

\* Line 785, make([]uint32, n): the capacity of a bin is its length.
BinCap(bins, i) == Len(bins[i])

\* The bin table that lies in the memory mem, cut as bins is.
TableOf(mem, bins) ==
    [i \in 1..Len(bins) |->
        SubSeq(mem, StartOf(bins, i) + 1, StartOf(bins, i) + Len(bins[i]))]

\* append(compounds, compoundsInBin...): nothing to append leaves the slice
\* as it is; what fits the capacity is written behind the slice, in the
\* array it shares with the table; otherwise the slice moves to an array
\* of its own.
Appended(st, inBin) ==
    IF Len(inBin) = 0 THEN st
    ELSE IF st.shared /\ st.len + Len(inBin) <= st.cap
    THEN [st EXCEPT !.mem = [p \in 1..Len(st.mem) |->
                                IF p > st.off + st.len /\ p <= st.off + st.len + Len(inBin)
                                THEN inBin[p - st.off - st.len] ELSE st.mem[p]],
                    !.len = st.len + Len(inBin)]
    ELSE [st EXCEPT !.shared = FALSE]

\* Lines 310-326 on the memory: the bins listed after the first.
RECURSIVE AppendBins(_, _, _, _)
AppendBins(bins, binIndices, i, st) ==
    IF i > Len(binIndices) THEN st.mem
    ELSE IF BinOutOfRange(Len(bins), binIndices[i]) THEN st.mem
    ELSE AppendBins(bins, binIndices, i + 1,
                    Appended(st, TableOf(st.mem, bins)[binIndices[i].lo + 1]))

\* Lines 293-326 on the memory of the table bins.
LoadBinMemory(bins, binIndices) ==
    IF BinOutOfRange(Len(bins), binIndices[1]) THEN Flat(bins)
    ELSE AppendBins(bins, binIndices, 2,
                    [mem    |-> Flat(bins),
                     off    |-> StartOf(bins, binIndices[1].lo + 1),
                     len    |-> Len(bins[binIndices[1].lo + 1]),
                     cap    |-> BinCap(bins, binIndices[1].lo + 1),
                     shared |-> TRUE])

\* The bin tables after the handlers of one request have run on data: only
\* underdarkLoadBin holds a slice of a table that it appends to.
TablesAfter(handlers, data) ==
    IF /\ \E i \in 1..Len(handlers) : handlers[i] = "underdarkLoadBin"
       /\ Len(data) >= 4
       /\ data[3] \in DOMAIN variantIndices
    THEN [variantIndices EXCEPT ![data[3]] =
             TableOf(LoadBinMemory(@, stringToIntArray(Split(data[4], ","))), @)]
    ELSE variantIndices

\* filterSearchTerms: the terms that are not the empty string, in order.
filterSearchTerms(terms) == SelectSeq(terms, LAMBDA v : v # <<>>)

\* Lines 821-828, one record against one term: the id field, else the
\* structure field; a record of one field has no structure field to read.
TermMatch(sp, term) ==
    IF sp[1] = term THEN "hit"
    ELSE IF Len(sp) < 2 THEN "panic"
    ELSE IF sp[2] = term THEN "hit" ELSE "miss"

\* Two tests in a row in place of the else: the ordinal is appended once
\* for each of the two fields that equals the term.
WithMatchesPerField(results, terms, sp, i) ==
    [j \in 1..Len(terms) |->
        results[j] \o (IF sp[1] = terms[j] THEN <<i>> ELSE <<>>)
                   \o (IF Len(sp) >= 2 /\ sp[2] = terms[j] THEN <<i>> ELSE <<>>)]

\* Lines 821-828, one record against every term: the record's ordinal is
\* appended to the matches of each term it matches.
WithMatches(results, terms, sp, i) ==
    [j \in 1..Len(terms) |->
        IF TermMatch(sp, terms[j]) = "hit" THEN Append(results[j], i) ELSE results[j]]

\* Lines 815-829: every record of the fingerprint against every term.
RECURSIVE ScanInfos(_, _, _, _, _, _)
ScanStep(file, offsets, lengths, terms, i, results, r) ==
    IF r.n < 1 THEN [outcome |-> "panic"]
    ELSE IF \E j \in 1..Len(terms) :
                TermMatch(Split(SubSeq(r.buf, 1, r.n - 1), " "), terms[j]) = "panic"
    THEN [outcome |-> "panic"]
    ELSE ScanInfos(file, offsets, lengths, terms, i + 1,
                   WithMatches(results, terms, Split(SubSeq(r.buf, 1, r.n - 1), " "), i))

ScanInfos(file, offsets, lengths, terms, i, results) ==
    IF i >= Len(offsets) THEN [outcome |-> "ok", results |-> results, reads |-> i]
    ELSE IF i >= Len(lengths) THEN [outcome |-> "panic"]
    ELSE ScanStep(file, offsets, lengths, terms, i, results,
                  ReadAt(file, lengths[i + 1], offsets[i + 1]))

\* The matched compound ordinals themselves in place of their bins.
MatchesAsBins(bins, matches, i, j) == matches

\* Lines 834-844 for one term: the bin ordinal once for every member of the
\* bin that equals a recorded match, bins and members in order.
RECURSIVE BinsOfMatches(_, _, _, _)
BinsOfMatches(bins, matches, i, j) ==
    IF i > Len(bins) THEN <<>>
    ELSE IF j > Len(bins[i]) THEN BinsOfMatches(bins, matches, i + 1, 1)
    ELSE [l \in 1..Cardinality({k \in 1..Len(matches) : matches[k] = bins[i][j]}) |-> i - 1]
         \o BinsOfMatches(bins, matches, i, j + 1)

\* Lines 831-846, with the matches of the scan; reads counts the records
\* the scan fetched.
SearchOfScan(file, bins, terms, scan) ==
    IF scan.outcome = "panic" THEN [outcome |-> "panic"]
    ELSE [outcome    |-> "ok",
          binIndices |-> [k \in 1..Len(terms) |-> BinsOfMatches(bins, scan.results[k], 1, 1)],
          err        |-> ~file.ok,
          reads      |-> scan.reads]

search(fingerprintId, variantId, terms) ==
    SearchOfScan(Open(InfosFileOf(fingerprintId)),
                 MapGet(variantIndices, variantId, NoBins),
                 terms,
                 ScanInfos(Open(InfosFileOf(fingerprintId)),
                           MapGet(infoOffsets, fingerprintId, <<>>),
                           MapGet(infoLengths, fingerprintId, <<>>),
                           terms, 0, [j \in 1..Len(terms) |-> <<>>]))

\* Lines 386-400, with what search returned; Reads is no field of the
\* message: it records how many records the request fetched.
SearchResponse(filteredSearchTerms, result) ==
    IF result.outcome = "panic" THEN Fault
    ELSE [Command     |-> "search:infos",
          BinIndices  |-> IF result.err THEN <<>> ELSE result.binIndices,
          SearchTerms |-> filteredSearchTerms,
          Reads       |-> result.reads]

underdarkSearch(data) ==
    IF Len(data) < 2 THEN Fault
    ELSE SearchResponse(filterSearchTerms(SubSeq(data, 3, Len(data))),
                        search(data[1], data[2], filterSearchTerms(SubSeq(data, 3, Len(data)))))

\* The start value of the running minimum in calcStats.
HistMinStart == 9999

\* A count that stops after the first bin.
SumLenFirst(bins) == IF bins = <<>> THEN 0 ELSE Len(Head(bins))

\* Lines 888-890: nCompounds, the populations of the bins added up.
RECURSIVE SumLen(_)
SumLen(bins) == IF bins = <<>> THEN 0 ELSE Len(Head(bins)) + SumLen(Tail(bins))

\* A quotient rounded to the nearest integer.
DivRounded(a, b) == (2 * a + b) \div (2 * b)

\* Line 911: nCompounds / nBins on two ints, the quotient without its
\* fraction; float32 holds it exactly (it is below 2^24 in every model
\* state).
IntDiv(a, b) == a \div b

\* calcStats of a bin table; an empty table divides by zero.
calcStatsOf(bins) ==
    LET nBins      == Len(bins)
        nCompounds == SumLen(bins)
        sizes      == {Len(bins[i]) : i \in 1..nBins}
        max        == IF \E n \in sizes : n > 0
                      THEN CHOOSE n \in sizes : \A m \in sizes : m <= n ELSE 0
        min        == IF \E n \in sizes : n < HistMinStart
                      THEN CHOOSE n \in sizes : \A m \in sizes : n <= m ELSE HistMinStart
    IN  IF nBins = 0 THEN Fault
        ELSE [CompoundCount |-> nCompounds,
              BinCount      |-> nBins,
              AvgBinSize    |-> IntDiv(nCompounds, nBins),
              BinHist       |-> [k \in 1..(max + 1) |->
                                    Cardinality({i \in 1..nBins : Len(bins[i]) = k - 1})],
              HistMin       |-> min,
              HistMax       |-> max]

calcStats(variantId) == calcStatsOf(MapGet(variantIndices, variantId, NoBins))

(***************************************************************************)
(* The connection layer                                                    *)
(***************************************************************************)

Conns == {1, 2}

\* Slots of the channel c.send (256 in the program).
QueueCap == 2

\* Requests a peer sends on one connection.
MaxReq == 4

\* Requests the peer of the failing connection sends when two are served.
MaxReqTwo == 4

\* Requests the peer of the other connection sends when two are served.
MaxReqOther == 1

\* Requests a peer sends in the runs checked for what eventually happens.
MaxReqFair == 3

\* pongWait, in units of 60 seconds.
PongWait == 2

\* pingPeriod, in the same units.
PingPeriod == (PongWait * 9) \div 10

\* serveUnderdark calls client.read() on the goroutine of the HTTP handler,
\* whose panics the HTTP server recovers, and starts client.write() with go,
\* where nothing recovers a panic.
PanicUnrecovered == TRUE

ReadPanicCrashes == FALSE

WritePanicCrashes == TRUE

Known == {"init", "load:variant", "load:stats", "load:map", "load:binpreview",
          "load:bin", "search:infos"}

\* Requests whose argument lists are complete and name what the catalog holds.
Requests ==
    { [cmd |-> "init",            msg |-> <<>>],
      [cmd |-> "load:variant",    msg |-> <<VarId>>],
      [cmd |-> "load:stats",      msg |-> <<VarId>>],
      [cmd |-> "load:map",        msg |-> <<MapId>>],
      [cmd |-> "load:binpreview", msg |-> <<"db1", FpId, VarId, <<"0">>>>],
      [cmd |-> "load:bin",        msg |-> <<"db1", FpId, VarId, <<"0", ",", "2">>>>],
      [cmd |-> "search:infos",    msg |-> <<FpId, VarId, <<"C">>>>],
      [cmd |-> "load:nothing",    msg |-> <<>>] }

FewRequests == {r \in Requests : r.cmd \in {"load:stats", "load:nothing"}}

OneRequest == {r \in Requests : r.cmd = "load:stats"}

\* A switch whose load:binpreview case falls through into load:bin and
\* whose default case answers like init.
SwitchFallThrough(cmd) ==
    CASE cmd = "init"            -> <<"underdarkInit">>
      [] cmd = "load:variant"    -> <<"underdarkLoadVariant">>
      [] cmd = "load:stats"      -> <<"underdarkLoadStats">>
      [] cmd = "load:map"        -> <<"underdarkLoadMap">>
      [] cmd = "load:binpreview" -> <<"underdarkLoadBinPreview", "underdarkLoadBin">>
      [] cmd = "load:bin"        -> <<"underdarkLoadBin">>
      [] cmd = "search:infos"    -> <<"underdarkSearch">>
      [] OTHER                   -> <<"underdarkInit">>

\* The switch of Client.write: the handlers a command runs, in order.
SwitchCases(cmd) ==
    CASE cmd = "init"            -> <<"underdarkInit">>
      [] cmd = "load:variant"    -> <<"underdarkLoadVariant">>
      [] cmd = "load:stats"      -> <<"underdarkLoadStats">>
      [] cmd = "load:map"        -> <<"underdarkLoadMap">>
      [] cmd = "load:binpreview" -> <<"underdarkLoadBinPreview">>
      [] cmd = "load:bin"        -> <<"underdarkLoadBin">>
      [] cmd = "search:infos"    -> <<"underdarkSearch">>
      [] OTHER                   -> <<>>

Invoke(h, data) ==
    CASE h = "underdarkInit"           -> underdarkInit(data)
      [] h = "underdarkLoadVariant"    -> underdarkLoadVariant(data)
      [] h = "underdarkLoadStats"      -> underdarkLoadStats(data)
      [] h = "underdarkLoadMap"        -> underdarkLoadMap(data)
      [] h = "underdarkLoadBinPreview" -> underdarkLoadBinPreview(data)
      [] h = "underdarkLoadBin"        -> underdarkLoadBin(data)
      [] h = "underdarkSearch"         -> underdarkSearch(data)

\* A write on the connection succeeds while it is open and the peer takes it.
WriteOk(c) == ~connClosed[c] /\ ~peerGone[c]

\* Lines 466-468: Client.write after a response write that failed.
AfterWriteError == "run"

\* A writer that pings only after a period without a response.
PingWhenQuiet(c) == ~respSinceTick[c]

\* Lines 470-472: whether Client.write writes a ping at the tick it handles.
PingAtTick(c) == TRUE

\* A writer that carries on after a failed ping.
PingErrorIgnored == "run"

\* Lines 472-474: Client.write after a ping write that failed.
AfterPingError == "done"

\* A channel that hands out its newest element.
ReceivedLast(q) == q[Len(q)]

\* Line 440: the request Client.write receives from the channel.
Received(q) == Head(q)

Rest(q) == Tail(q)

\* A select whose default branch drops the request and leaves the channel open.
SelectSendDrop(c) ==
    IF chClosed[c] THEN "panic"
    ELSE IF Len(send[c]) < QueueCap THEN "enqueue"
    ELSE "drop"

\* Lines 423-427: what the select of Client.read does with a decoded request.
SelectSend(c) ==
    IF chClosed[c] THEN "panic"
    ELSE IF Len(send[c]) < QueueCap THEN "enqueue"
    ELSE "close"

\* A loop that renews the read deadline with every request.
DeadlineRenewed(c) == PongWait

\* Lines 412-428: the read deadline after the loop has taken a request
\* (the loop sets none).
DeadlineAfterRequest(c) == readLeft[c]

\* Lines 407-410: the read deadline after the pong handler has run.
DeadlineAfterPong(c) == PongWait


(***************************************************************************)
(* Actions                                                                 *)
(***************************************************************************)

\* serveUnderdark: the upgrade fails and the handler returns, or the client
\* is made, Client.write is started (with its ticker) and Client.read sets
\* the read deadline and the pong handler and enters its loop.
serveUnderdark(c) ==
    /\ ~crashed
    /\ rpc[c] = "idle"
    /\ \E upgraded \in BOOLEAN :
          IF upgraded
          THEN /\ rpc' = [rpc EXCEPT ![c] = "read"]
               /\ wpc' = [wpc EXCEPT ![c] = "run"]
               /\ readLeft' = [readLeft EXCEPT ![c] = PongWait]
               /\ tickLeft' = [tickLeft EXCEPT ![c] = PingPeriod]
               /\ rexit' = rexit
               /\ ev' = [op |-> "serve", c |-> c]
          ELSE /\ rpc' = [rpc EXCEPT ![c] = "done"]
               /\ rexit' = [rexit EXCEPT ![c] = "noupgrade"]
               /\ ev' = [op |-> "noupgrade", c |-> c]
               /\ UNCHANGED <<wpc, readLeft, tickLeft>>
    /\ UNCHANGED <<tables, send, chClosed, connClosed, peerGone, tickPending,
                   pongDue, nRecv, lastResp, respSinceTick, wexit, crashed>>

\* Client.read decodes the request m and offers it to c.send: it is queued,
\* or the full channel is closed, or the send on the closed channel panics
\* (the deferred c.conn.Close() runs while the panic unwinds).
ClientReadRequest(c, m) ==
    /\ ~crashed
    /\ rpc[c] = "read"
    /\ ~connClosed[c] /\ ~peerGone[c] /\ readLeft[c] > 0
    /\ LET how == SelectSend(c)
           id  == nRecv[c] + 1
       IN  /\ nRecv' = [nRecv EXCEPT ![c] = id]
           /\ send' = [send EXCEPT ![c] =
                          IF how = "enqueue"
                          THEN Append(@, [id |-> id, cmd |-> m.cmd, msg |-> m.msg])
                          ELSE @]
           /\ chClosed' = [chClosed EXCEPT ![c] = @ \/ how = "close"]
           /\ rpc' = [rpc EXCEPT ![c] = IF how = "panic" THEN "done" ELSE "read"]
           /\ rexit' = [rexit EXCEPT ![c] = IF how = "panic" THEN "panic" ELSE @]
           /\ connClosed' = [connClosed EXCEPT ![c] = @ \/ how = "panic"]
           /\ crashed' = (how = "panic" /\ ReadPanicCrashes)
           /\ readLeft' = [readLeft EXCEPT ![c] = DeadlineAfterRequest(c)]
           /\ ev' = [op |-> "request", c |-> c, id |-> id, cmd |-> m.cmd, how |-> how]
    /\ UNCHANGED <<tables, wpc, peerGone, tickLeft, tickPending, pongDue,
                   lastResp, respSinceTick, wexit>>

\* Client.read: ReadJSON returns an error (the connection is closed, the
\* read deadline has passed, or the peer sent a close frame or something
\* that is no request); the loop breaks and the deferred c.conn.Close() runs.
ClientReadError(c) ==
    /\ ~crashed
    /\ rpc[c] = "read"
    /\ rpc' = [rpc EXCEPT ![c] = "done"]
    /\ rexit' = [rexit EXCEPT ![c] = "error"]
    /\ connClosed' = [connClosed EXCEPT ![c] = TRUE]
    /\ ev' = [op |-> "readerror", c |-> c,
              cause |-> IF connClosed[c] THEN "closed"
                        ELSE IF readLeft[c] = 0 THEN "timeout" ELSE "decode"]
    /\ UNCHANGED <<tables, wpc, send, chClosed, peerGone, readLeft, tickLeft,
                   tickPending, pongDue, nRecv, lastResp, respSinceTick, wexit, crashed>>

\* The pong handler, called from ReadJSON when the peer's pong arrives.
PongHandler(c) ==
    /\ ~crashed
    /\ rpc[c] = "read"
    /\ ~connClosed[c] /\ ~peerGone[c] /\ readLeft[c] > 0
    /\ pongDue[c]
    /\ pongDue' = [pongDue EXCEPT ![c] = FALSE]
    /\ readLeft' = [readLeft EXCEPT ![c] = DeadlineAfterPong(c)]
    /\ ev' = [op |-> "pong", c |-> c]
    /\ UNCHANGED <<tables, rexit, rpc, wpc, send, chClosed, connClosed, peerGone, tickLeft,
                   tickPending, nRecv, lastResp, respSinceTick, wexit, crashed>>

\* Lines 447-468, with the request received and the results of the
\* handlers its command ran: each result is written as a response, and a
\* write error is only logged.  A handler that panicked ends the process.
WriteResponses(c, message, handlers, results) ==
    LET panicked == \E i \in 1..Len(results) : IsFault(results[i])
        written  == IF WriteOk(c) /\ ~panicked THEN results ELSE <<>>
        err      == ~panicked /\ Len(results) > 0 /\ ~WriteOk(c)
    IN  /\ crashed' = (panicked /\ WritePanicCrashes)
        /\ wpc' = [wpc EXCEPT ![c] = IF err THEN AfterWriteError ELSE @]
        /\ wexit' = [wexit EXCEPT ![c] = IF err /\ AfterWriteError = "done" THEN "write" ELSE @]
        /\ connClosed' = [connClosed EXCEPT ![c] = @ \/ (err /\ AfterWriteError = "done")]
        /\ lastResp' = [lastResp EXCEPT ![c] = IF written # <<>> THEN message.id ELSE @]
        /\ respSinceTick' = [respSinceTick EXCEPT ![c] = @ \/ written # <<>>]
        /\ ev' = [op |-> "dispatch", c |-> c, id |-> message.id, cmd |-> message.cmd,
                  handlers |-> handlers, calls |-> Len(results),
                  written |-> written, err |-> err, panicked |-> panicked]

RunHandlers(c, message, handlers) ==
    WriteResponses(c, message, handlers,
                   [i \in 1..Len(handlers) |-> Invoke(handlers[i], message.msg)])

\* Client.write, case message, ok := <-c.send with ok: the switch runs the
\* handler of the command and writes its response.
ClientWriteRequest(c) ==
    /\ ~crashed
    /\ wpc[c] = "run"
    /\ send[c] # <<>>
    /\ send' = [send EXCEPT ![c] = Rest(@)]
    /\ RunHandlers(c, Received(send[c]), SwitchCases(Received(send[c]).cmd))
    /\ variantIndices' = TablesAfter(SwitchCases(Received(send[c]).cmd), Received(send[c]).msg)
    /\ UNCHANGED <<fs, infoOffsets, infoLengths, stats, rexit, rpc, chClosed, peerGone,
                   readLeft, tickLeft, tickPending, pongDue, nRecv>>

\* A receive that reports the close as soon as the channel is closed,
\* whatever it still holds.
RecvClosedAtOnce(c) == chClosed[c]

\* Line 440, message, ok := <-c.send with ok false: the channel is closed
\* and what it held has been received.
RecvNotOk(c) == chClosed[c] /\ send[c] = <<>>

\* Client.write, case message, ok := <-c.send with !ok (the channel is
\* closed and drained): the close frame is written and the task returns;
\* its deferred function stops the ticker and closes the connection.
ClientWriteClose(c) ==
    /\ ~crashed
    /\ wpc[c] = "run"
    /\ RecvNotOk(c)
    /\ wpc' = [wpc EXCEPT ![c] = "done"]
    /\ wexit' = [wexit EXCEPT ![c] = "close"]
    /\ connClosed' = [connClosed EXCEPT ![c] = TRUE]
    /\ tickPending' = [tickPending EXCEPT ![c] = FALSE]
    /\ ev' = [op |-> "closeframe", c |-> c, delivered |-> WriteOk(c)]
    /\ UNCHANGED <<tables, rexit, rpc, send, chClosed, peerGone, readLeft, tickLeft, pongDue,
                   nRecv, lastResp, respSinceTick, crashed>>

\* Client.write, case <-ticker.C: a ping is written; if that write fails
\* the task returns (ticker stopped, connection closed).
ClientWriteTick(c) ==
    /\ ~crashed
    /\ wpc[c] = "run"
    /\ tickPending[c]
    /\ LET ping   == PingAtTick(c)
           failed == ping /\ ~WriteOk(c)
       IN  /\ tickPending' = [tickPending EXCEPT ![c] = FALSE]
           /\ wpc' = [wpc EXCEPT ![c] = IF failed THEN AfterPingError ELSE @]
           /\ wexit' = [wexit EXCEPT ![c] = IF failed /\ AfterPingError = "done" THEN "ping" ELSE @]
           /\ connClosed' = [connClosed EXCEPT ![c] = @ \/ (failed /\ AfterPingError = "done")]
           /\ pongDue' = [pongDue EXCEPT ![c] = @ \/ (ping /\ ~failed)]
           /\ respSinceTick' = [respSinceTick EXCEPT ![c] = FALSE]
           /\ ev' = [op |-> "tick", c |-> c, ping |-> ping, delivered |-> ping /\ ~failed,
                     afterResponse |-> respSinceTick[c]]
    /\ UNCHANGED <<tables, rexit, rpc, send, chClosed, peerGone, readLeft, tickLeft,
                   nRecv, lastResp, crashed>>

\* One unit of time passes: every read deadline comes nearer, and the
\* ticker of every running Client.write fires when its period is over (a
\* tick that finds one waiting is dropped).
Advance ==
    /\ ~crashed
    /\ \E c \in Conns : rpc[c] = "read" \/ wpc[c] = "run"
    /\ readLeft' = [c \in Conns |->
                       IF rpc[c] = "read" /\ readLeft[c] > 0 THEN readLeft[c] - 1
                       ELSE readLeft[c]]
    /\ tickLeft' = [c \in Conns |->
                       IF wpc[c] # "run" THEN tickLeft[c]
                       ELSE IF tickLeft[c] <= 1 THEN PingPeriod ELSE tickLeft[c] - 1]
    /\ tickPending' = [c \in Conns |->
                          tickPending[c] \/ (wpc[c] = "run" /\ tickLeft[c] <= 1)]
    /\ ev' = [op |-> "advance"]
    /\ UNCHANGED <<tables, rexit, rpc, wpc, send, chClosed, connClosed, peerGone, pongDue,
                   nRecv, lastResp, respSinceTick, wexit, crashed>>

\* The peer of a served connection goes away: nothing written to it
\* succeeds any more.
PeerLost(c) ==
    /\ ~crashed
    /\ rpc[c] # "idle" /\ wpc[c] # "idle"
    /\ ~peerGone[c]
    /\ peerGone' = [peerGone EXCEPT ![c] = TRUE]
    /\ ev' = [op |-> "peerlost", c |-> c]
    /\ UNCHANGED <<tables, rexit, rpc, wpc, send, chClosed, connClosed, readLeft, tickLeft,
                   tickPending, pongDue, nRecv, lastResp, respSinceTick, wexit, crashed>>

(***************************************************************************)
(* Specifications                                                          *)
(***************************************************************************)

InitTables ==
    /\ fs = DataDir
    /\ variantIndices = [v \in {VarId} |-> ExampleBins]
    /\ infoOffsets = [f \in {FpId} |-> ExampleOffsets]
    /\ infoLengths = [f \in {FpId} |-> ExampleLengths]
    /\ stats = [v \in {VarId} |-> calcStatsOf(ExampleBins)]

InitConns ==
    /\ rpc = [c \in Conns |-> "idle"]
    /\ wpc = [c \in Conns |-> "idle"]
    /\ send = [c \in Conns |-> <<>>]
    /\ chClosed = [c \in Conns |-> FALSE]
    /\ connClosed = [c \in Conns |-> FALSE]
    /\ peerGone = [c \in Conns |-> FALSE]
    /\ readLeft = [c \in Conns |-> 0]
    /\ tickLeft = [c \in Conns |-> 0]
    /\ tickPending = [c \in Conns |-> FALSE]
    /\ pongDue = [c \in Conns |-> FALSE]
    /\ nRecv = [c \in Conns |-> 0]
    /\ lastResp = [c \in Conns |-> 0]
    /\ respSinceTick = [c \in Conns |-> FALSE]
    /\ rexit = [c \in Conns |-> "none"]
    /\ wexit = [c \in Conns |-> "none"]

Init == InitTables /\ InitConns /\ crashed = FALSE /\ ev = [op |-> "none"]

\* The steps of the two tasks of the connections cs, whose peers send at
\* most n requests each, drawn from pool.
Served(cs, pool, n) ==
    \/ \E c \in cs : serveUnderdark(c)
    \/ \E c \in cs : \E m \in pool : nRecv[c] < n /\ ClientReadRequest(c, m)
    \/ \E c \in cs : PongHandler(c)
    \/ \E c \in cs : ClientWriteRequest(c)
    \/ \E c \in cs : ClientWriteClose(c)
    \/ \E c \in cs : ClientWriteTick(c)

\* What goes wrong on the connections cs.
Failing(cs) ==
    \/ \E c \in cs : ClientReadError(c)
    \/ \E c \in cs : PeerLost(c)

\* One connection, every command.
Next == Served({1}, Requests, MaxReq) \/ Failing({1}) \/ Advance

Spec == Init /\ [][Next]_vars

\* Two connections: everything that can go wrong goes wrong on the first,
\* next to a second whose peer behaves.
NextTwo ==
    \/ Served({1}, OneRequest, MaxReqTwo)
    \/ Served({2}, OneRequest, MaxReqOther)
    \/ Failing({1})
    \/ Advance

SpecTwo == Init /\ [][NextTwo]_vars

\* One connection under fair scheduling: a goroutine that can run does
\* run, and time passes.
NextFair == Served({1}, FewRequests, MaxReqFair) \/ Failing({1}) \/ Advance

\* The select of Client.write picks among its ready cases at random, so a
\* case that stays ready is taken.
Fairness ==
    /\ WF_vars(Advance)
    /\ WF_vars(ClientWriteRequest(1))
    /\ WF_vars(ClientWriteClose(1))
    /\ WF_vars(ClientWriteTick(1))

SpecFair == Init /\ [][NextFair]_vars /\ Fairness

\* Two connections whose peers ask for bins and search, the handlers of
\* the one running between those of the other.

\* Requests a peer sends on one of the two connections.
MaxReqShared == 2

BinRequests ==
    { [cmd |-> "load:bin",        msg |-> <<"db1", FpId, VarId, <<"0", ",", "2">>>>],
      [cmd |-> "load:bin",        msg |-> <<"db1", FpId, VarId, <<"1", ",", "0", ",", "2">>>>],
      [cmd |-> "load:binpreview", msg |-> <<"db1", FpId, VarId, <<"1">>>>],
      [cmd |-> "search:infos",    msg |-> <<FpId, VarId, <<"C">>>>] }

NextShared ==
    \/ \E c \in Conns : serveUnderdark(c)
    \/ \E c \in Conns : \E m \in BinRequests : nRecv[c] < MaxReqShared /\ ClientReadRequest(c, m)
    \/ \E c \in Conns : ClientWriteRequest(c)

SpecShared == Init /\ [][NextShared]_vars

\* One connection whose peer sends argument lists that are shorter than
\* the handler of the command reads.

\* Requests the peer sends.
MaxReqShort == 2

\* The first n arguments of a request.
Cut(r, n) == [cmd |-> r.cmd, msg |-> SubSeq(r.msg, 1, n)]

\* Every request of the catalog, whole and cut after each smaller number of
\* arguments.
ShortRequests == UNION {{Cut(r, n) : n \in 0..Len(r.msg)} : r \in Requests}

NextShort ==
    \/ serveUnderdark(1)
    \/ \E m \in ShortRequests : nRecv[1] < MaxReqShort /\ ClientReadRequest(1, m)
    \/ ClientWriteRequest(1)

SpecShort == Init /\ [][NextShort]_vars

\* The handlers called one at a time, as Client.write calls them, on
\* argument lists a client can send.

\* Bin ordinals as a client writes them: positions of bins, positions past
\* the last bin, negative numbers, and numbers on both sides of 2^32 and of
\* 2^63.
OrdinalTexts ==
    { <<"0">>, <<"1">>, <<"2">>, <<"3">>, <<"7">>,
      <<"-", "1">>, <<"-", "3">>,
      <<"4", "2", "9", "4", "9", "6", "7", "2", "9", "5">>,
      <<"4", "2", "9", "4", "9", "6", "7", "2", "9", "6">>,
      <<"4", "2", "9", "4", "9", "6", "7", "2", "9", "7">>,
      <<"9", "2", "2", "3", "3", "7", "2", "0", "3", "6", "8", "5", "4", "7", "7", "5", "8", "0", "7">>,
      <<"9", "2", "2", "3", "3", "7", "2", "0", "3", "6", "8", "5", "4", "7", "7", "5", "8", "0", "8">>,
      <<"-", "9", "2", "2", "3", "3", "7", "2", "0", "3", "6", "8", "5", "4", "7", "7", "5", "8", "0", "9">> }

\* Ordinals in one load:bin request.
MaxList == 2

OrdinalLists == UNION {[1..n -> OrdinalTexts] : n \in 1..MaxList}

\* The ordinals of a list, separated by commas.
RECURSIVE JoinComma(_)
JoinComma(list) ==
    IF Len(list) = 1 THEN list[1]
    ELSE list[1] \o <<",">> \o JoinComma(Tail(list))

\* The bins a loaded variant can have over the four records of the catalog.
BinShapes ==
    { ExampleBins,
      <<<<0, 1, 2, 3>>>>,
      <<<<>>, <<0>>, <<1, 2>>, <<3>>>>,
      <<<<3, 0>>, <<>>>> }

VariantIds == {VarId, "db1.fp1.v9"}

InitH ==
    /\ fs = DataDir
    /\ variantIndices \in {[v \in {VarId} |-> b] : b \in BinShapes}
    /\ infoOffsets = [f \in {FpId} |-> ExampleOffsets]
    /\ infoLengths = [f \in {FpId} |-> ExampleLengths]
    /\ stats = [v \in {VarId} |-> calcStatsOf(variantIndices[v])]
    /\ InitConns
    /\ crashed = FALSE
    /\ ev = [op |-> "none"]

\* One call of a handler, with what it returned (the handlers keep nothing
\* from one call to the next, so a run makes one call).
Called(handler, data, texts, result) ==
    /\ ev.op = "none"
    /\ ev' = [op |-> "call", handler |-> handler, data |-> data, texts |-> texts,
              nBins |-> Len(MapGet(variantIndices, data[3], NoBins)),
              result |-> result]
    /\ variantIndices' = TablesAfter(<<handler>>, data)
    /\ UNCHANGED <<fs, infoOffsets, infoLengths, stats, conns, crashed>>

CallLoadBinPreview ==
    \E v \in VariantIds : \E t \in OrdinalTexts :
        Called("underdarkLoadBinPreview", <<"db1", FpId, v, t>>, <<t>>,
               underdarkLoadBinPreview(<<"db1", FpId, v, t>>))

CallLoadBin ==
    \E v \in VariantIds : \E list \in OrdinalLists :
        Called("underdarkLoadBin", <<"db1", FpId, v, JoinComma(list)>>, list,
               underdarkLoadBin(<<"db1", FpId, v, JoinComma(list)>>))

\* Term lists of a search:infos request: none, empty strings only, ids and
\* structures of records, a term no record has, the same term twice.
SearchTermLists ==
    { <<>>, <<<<>>>>, <<<<>>, <<>>>>,
      <<<<"C">>>>, <<<<"c">>>>, <<<<"Z">>>>,
      <<<<"C">>, <<"a">>>>, <<<<>>, <<"D">>>>, <<<<"A">>, <<"A">>>> }

SearchCall(termLists) ==
    \E v \in VariantIds : \E terms \in termLists :
        /\ ev.op = "none"
        /\ ev' = [op |-> "call", handler |-> "underdarkSearch",
                  data |-> <<FpId, v>> \o terms, texts |-> terms,
                  nBins |-> Len(MapGet(variantIndices, v, NoBins)),
                  result |-> underdarkSearch(<<FpId, v>> \o terms)]
        /\ UNCHANGED <<tables, conns, crashed>>

CallSearch == SearchCall(SearchTermLists)

NextH == CallLoadBinPreview \/ CallLoadBin \/ CallSearch

SpecH == InitH /\ [][NextH]_vars

\* The handlers on catalogs that are not what the loader saw: a file has
\* gone or has lost its end, records have too few fields, a variant names
\* compounds its fingerprint does not have.

\* Four records of four, one, two and no fields.
ShortRecordsBytes ==
    RecordLine("A", "a", "1", "w") \o <<"B", "\n">> \o <<"C", " ", "c", "\n">> \o <<"\n">>

Without(dir, paths) == [p \in (DOMAIN dir) \ paths |-> dir[p]]

WithInfosFile(dir, bytes) == [p \in DOMAIN dir |-> IF p = "db1/fp1/infos" THEN bytes ELSE dir[p]]

\* The catalogs: what the data directory holds, and the tables as loaded.
DamagedCatalogs ==
    { [fs |-> Without(DataDir, {"db1/fp1/infos"}),
       bins |-> ExampleBins, offsets |-> ExampleOffsets, lengths |-> ExampleLengths],
      [fs |-> Without(DataDir, {"db1/fp1/v1/coords", "db1/fp1/v1/map"}),
       bins |-> ExampleBins, offsets |-> ExampleOffsets, lengths |-> ExampleLengths],
      [fs |-> WithInfosFile(DataDir, SubSeq(InfosBytes, 1, 16)),
       bins |-> ExampleBins, offsets |-> ExampleOffsets, lengths |-> ExampleLengths],
      [fs |-> WithInfosFile(DataDir, SubSeq(InfosBytes, 1, 30)),
       bins |-> ExampleBins, offsets |-> ExampleOffsets, lengths |-> ExampleLengths],
      [fs |-> WithInfosFile(DataDir, ShortRecordsBytes),
       bins |-> <<<<0>>, <<1>>, <<2>>, <<3>>>>,
       offsets |-> <<0, 8, 10, 14>>, lengths |-> <<8, 2, 4, 1>>],
      [fs |-> DataDir,
       bins |-> <<<<0, 5>>, <<7>>, <<1>>>>,
       offsets |-> ExampleOffsets, lengths |-> ExampleLengths] }

InitIO ==
    /\ \E cat \in DamagedCatalogs :
          /\ fs = cat.fs
          /\ variantIndices = [v \in {VarId} |-> cat.bins]
          /\ infoOffsets = [f \in {FpId} |-> cat.offsets]
          /\ infoLengths = [f \in {FpId} |-> cat.lengths]
    /\ stats = [v \in {VarId} |-> calcStatsOf(variantIndices[v])]
    /\ InitConns
    /\ crashed = FALSE
    /\ ev = [op |-> "none"]

CallLoadVariant ==
    \E v \in VariantIds :
        /\ ev.op = "none"
        /\ ev' = [op |-> "call", handler |-> "underdarkLoadVariant",
                  data |-> <<v>>, texts |-> <<>>,
                  nBins |-> Len(MapGet(variantIndices, v, NoBins)),
                  result |-> underdarkLoadVariant(<<v>>)]
        /\ UNCHANGED <<tables, conns, crashed>>

CallLoadMap ==
    \E id \in {MapId, "db1.fp1.v1.m9"} :
        /\ ev.op = "none"
        /\ ev' = [op |-> "call", handler |-> "underdarkLoadMap",
                  data |-> <<id>>, texts |-> <<>>,
                  nBins |-> 0,
                  result |-> underdarkLoadMap(<<id>>)]
        /\ UNCHANGED <<tables, conns, crashed>>

NextIO == NextH \/ CallLoadVariant \/ CallLoadMap

SpecIO == InitIO /\ [][NextIO]_vars

\* The search on a catalog whose records share fields: two records with
\* the structure a, one with the id a, one whose id and structure are both c.
TwinRecordsBytes ==
    RecordLine("A", "a", "1", "w") \o RecordLine("B", "a", "2", "x") \o
    RecordLine("a", "b", "3", "y") \o RecordLine("c", "c", "4", "z")

\* Bins over those records, also with a member listed twice and with a
\* member that is no record.
TwinBinShapes == BinShapes \cup {<<<<1, 1>>, <<0>>>>, <<<<0, 5>>, <<3, 3>>>>}

TwinTermLists ==
    { <<>>, <<<<"a">>>>, <<<<"b">>>>, <<<<"c">>>>, <<<<"A">>>>, <<<<"Z">>>>,
      <<<<"a">>, <<"c">>>>, <<<<"a">>, <<"a">>>>, <<<<>>, <<"a">>>>,
      <<<<"c">>, <<>>, <<"a">>>> }

InitSearch ==
    /\ fs = WithInfosFile(DataDir, TwinRecordsBytes)
    /\ variantIndices \in {[v \in {VarId} |-> b] : b \in TwinBinShapes}
    /\ infoOffsets = [f \in {FpId} |-> ExampleOffsets]
    /\ infoLengths = [f \in {FpId} |-> ExampleLengths]
    /\ stats = [v \in {VarId} |-> calcStatsOf(variantIndices[v])]
    /\ InitConns
    /\ crashed = FALSE
    /\ ev = [op |-> "none"]

CallSearchTwins == SearchCall(TwinTermLists)

NextSearch == CallSearchTwins

SpecSearch == InitSearch /\ [][NextSearch]_vars

\* The statistics of a variant as the loader stores them (line 796), for
\* every bin table within the bounds.

\* Bins of a loaded variant.
MaxBins == 3

\* Members of one bin.
MaxBinSize == 2

BinsWithin == UNION {[1..k -> {0, 1}] : k \in 0..MaxBinSize}

BinTables == UNION {[1..n -> BinsWithin] : n \in 0..MaxBins}

\* A bin of n members.
BinOfSize(n) == [j \in 1..n |-> 0]

\* Bin tables whose populations lie on both sides of the start value of
\* the running minimum.
LargeBinTables ==
    { <<BinOfSize(HistMinStart - 1)>>,
      <<BinOfSize(HistMinStart)>>,
      <<BinOfSize(HistMinStart + 1)>>,
      <<BinOfSize(HistMinStart + 2), BinOfSize(HistMinStart + 1)>>,
      <<BinOfSize(HistMinStart + 1), BinOfSize(1)>> }

InitStats ==
    /\ fs = DataDir
    /\ variantIndices \in {[v \in {VarId} |-> b] : b \in BinTables \cup LargeBinTables}
    /\ infoOffsets = [f \in {FpId} |-> ExampleOffsets]
    /\ infoLengths = [f \in {FpId} |-> ExampleLengths]
    /\ stats = [v \in {} |-> ZeroStats]
    /\ InitConns
    /\ crashed = FALSE
    /\ ev = [op |-> "none"]

\* readVariantIndexFile, line 796: stats[id] = calcStats(id); the division
\* by the bin count of a table without bins panics and ends the process.
StoreStats(id) ==
    /\ ~crashed
    /\ id \notin DOMAIN stats
    /\ IF Len(MapGet(variantIndices, id, NoBins)) = 0
       THEN crashed' = TRUE /\ stats' = stats
       ELSE crashed' = FALSE /\ stats' = [v \in {id} |-> calcStats(id)]
    /\ ev' = [op |-> "stats", id |-> id]
    /\ UNCHANGED <<fs, variantIndices, infoOffsets, infoLengths, conns>>

NextStats == StoreStats(VarId)

SpecStats == InitStats /\ [][NextStats]_vars

(***************************************************************************)
(* Startup loading: loadIndices reads the record index of the fingerprint  *)
(* and the bin index of the variant, each in two passes, before main       *)
(* starts to listen.                                                       *)
(***************************************************************************)

InfoIndicesFile == "db1/fp1/infos.index"

IndicesFile == "db1/fp1/v1/index"

\* The number a magnitude stands for (its two high limbs are zero in every
\* model state).
NatOf(l) == l[1] + Limb * l[2]

\* The largest value of an unsigned integer of bitSize bits.
MaxUint(bitSize) ==
    CASE bitSize = 16 -> <<Limb - 1, 0, 0, 0>>
      [] bitSize = 32 -> <<Limb - 1, Limb - 1, 0, 0>>
      [] bitSize = 64 -> <<Limb - 1, Limb - 1, Limb - 1, Limb - 1>>

\* m does not fit bitSize bits.
OutOfRange(m, bitSize) ==
    \/ m.over
    \/ bitSize = 16 /\ <<m.l[2], m.l[3], m.l[4]>> # <<0, 0, 0>>
    \/ bitSize = 32 /\ <<m.l[3], m.l[4]>> # <<0, 0>>

\* strconv.ParseUint(s, 10, bitSize) with its error dropped, as its three
\* callers do: a syntax error (no digits, a sign, any other byte) yields 0,
\* a range error yields the largest value of bitSize bits.
ParseUint(s, bitSize) ==
    IF s = <<>> \/ \E i \in 1..Len(s) : ~IsDigit(s[i])
    THEN ZeroMag
    ELSE IF OutOfRange(MagOf(s, [over |-> FALSE, l |-> ZeroMag]), bitSize)
         THEN MaxUint(bitSize)
         ELSE MagOf(s, [over |-> FALSE, l |-> ZeroMag]).l

\* bytes.Count(buf, "\n") over the whole file.
CountSep(bytes) == Cardinality({i \in 1..Len(bytes) : bytes[i] = "\n"})

\* countLines: the number of line separators; a file that cannot be opened
\* ends the process (log.Fatal).
countLines(path) ==
    IF ~Open(path).ok THEN [fatal |-> TRUE, count |-> 0]
    ELSE [fatal |-> FALSE, count |-> CountSep(Open(path).bytes)]

\* bufio.ScanLines drops one carriage return at the end of a line.
DropCR(line) ==
    IF line # <<>> /\ line[Len(line)] = "\r" THEN SubSeq(line, 1, Len(line) - 1) ELSE line

\* The tokens of a bufio.Scanner splitting with ScanLines: the text between
\* separators, and what follows the last separator when it is not empty.
ScanLines(bytes) ==
    LET pieces == Split(bytes, "\n")
        n      == IF pieces[Len(pieces)] = <<>> THEN Len(pieces) - 1 ELSE Len(pieces)
    IN  [i \in 1..n |-> DropCR(pieces[i])]

\* Lines 752-763: line i of the index into entry i of the two tables; a
\* line without a comma has no values[1], and an entry past the end of a
\* table cannot be assigned.
RECURSIVE IndexLines(_, _, _, _)
IndexLine(lines, i, offsets, lengths, values) ==
    IF Len(values) < 2 \/ i > Len(offsets) THEN [outcome |-> "panic"]
    ELSE IndexLines(lines, i + 1,
                    [offsets EXCEPT ![i] = NatOf(ParseUint(values[1], 64))],
                    [lengths EXCEPT ![i] = NatOf(ParseUint(values[2], 16))])

IndexLines(lines, i, offsets, lengths) ==
    IF i > Len(lines) THEN [outcome |-> "ok", offsets |-> offsets, lengths |-> lengths]
    ELSE IndexLine(lines, i, offsets, lengths, Split(lines[i], ","))

\* readIndexFile on tables of n entries: the file that cannot be opened
\* scans as no lines and its error is returned to log.Fatal.
readIndexFile(path, n) ==
    IF ~Open(path).ok THEN [outcome |-> "fatal"]
    ELSE IndexLines(ScanLines(Open(path).bytes), 1, [i \in 1..n |-> 0], [i \in 1..n |-> 0])

\* Lines 783-790: one line of the bin index as the members of a bin.
BinOfLine(values) == [j \in 1..Len(values) |-> NatOf(ParseUint(values[j], 32))]

\* Lines 781-793: line i of the index into bin i of the table.
RECURSIVE BinLines(_, _, _)
BinLines(lines, i, bins) ==
    IF i > Len(lines) THEN [outcome |-> "ok", bins |-> bins]
    ELSE IF i > Len(bins) THEN [outcome |-> "panic"]
    ELSE BinLines(lines, i + 1, [bins EXCEPT ![i] = BinOfLine(Split(lines[i], ","))])

\* readVariantIndexFile on a table of n bins, up to line 793.
readVariantIndexFile(path, n) ==
    IF ~Open(path).ok THEN [outcome |-> "fatal"]
    ELSE BinLines(ScanLines(Open(path).bytes), 1, [i \in 1..n |-> <<>>])

\* Lines of an index file, separated and, when ended is true, ended by a
\* line separator.
RECURSIVE Unlines(_, _)
Unlines(lines, ended) ==
    IF lines = <<>> THEN <<>>
    ELSE IF Len(lines) = 1 THEN lines[1] \o (IF ended THEN <<"\n">> ELSE <<>>)
    ELSE lines[1] \o <<"\n">> \o Unlines(Tail(lines), ended)

\* Lines of an index file.
MaxLines == 2

\* Lines of a record index: the entries of the first two records of the
\* catalog, a length on either side of 2^16, an offset and a length that
\* are no numbers, and a line without a comma.
RecordIndexLines ==
    { <<"0", ",", "8">>, <<"8", ",", "8">>,
      <<"0", ",", "6", "5", "5", "3", "5">>, <<"0", ",", "6", "5", "5", "3", "6">>,
      <<"0", ",", "7", "0", "0", "0", "0">>,
      <<"x", ",", "8">>, <<"8", ",", "-", "1">>, <<"8", ",">>, <<"8">> }

\* Lines of a bin index: bins of one and two members, a member that is no
\* number, an empty line.
BinIndexLines ==
    { <<"0", ",", "1">>, <<"2">>, <<"3">>, <<"x">>, <<"0", ",", "1", "x">>, <<>> }

IndexFiles(lineSet) ==
    {Unlines(lines, ended) :
        lines \in UNION {[1..n -> lineSet] : n \in 0..MaxLines}, ended \in BOOLEAN}

ExampleRecordIndex == Unlines(<<<<"0", ",", "8">>, <<"8", ",", "8">>>>, TRUE)

ExampleBinIndex == Unlines(<<<<"0", ",", "1">>, <<"2">>>>, TRUE)

\* The data directory with its two index files.
WithIndexFiles(dir, recordIndex, binIndex) ==
    [p \in DOMAIN dir \cup {InfoIndicesFile, IndicesFile} |->
        CASE p = InfoIndicesFile -> recordIndex
          [] p = IndicesFile     -> binIndex
          [] OTHER               -> dir[p]]

\* The data directories the process is started on: every record index next
\* to the bin index of the example, every bin index next to the record
\* index of the example, and directories with an index file missing.
StartDirs ==
    {WithIndexFiles(DataDir, r, ExampleBinIndex) : r \in IndexFiles(RecordIndexLines)}
    \cup {WithIndexFiles(DataDir, ExampleRecordIndex, b) : b \in IndexFiles(BinIndexLines)}
    \cup {Without(WithIndexFiles(DataDir, ExampleRecordIndex, ExampleBinIndex), {p}) :
             p \in {InfoIndicesFile, IndicesFile}}

InitLoad ==
    /\ fs \in StartDirs
    /\ variantIndices = [v \in {} |-> NoBins]
    /\ infoOffsets = [f \in {} |-> <<>>]
    /\ infoLengths = [f \in {} |-> <<>>]
    /\ stats = [v \in {} |-> ZeroStats]
    /\ InitConns
    /\ crashed = FALSE
    /\ ev = [op |-> "none"]

\* The tables of the fingerprint after readIndexFile returned r.
StoreIndex(id, r) ==
    /\ crashed' = (r.outcome # "ok")
    /\ infoOffsets' = IF r.outcome = "ok" THEN [f \in {id} |-> r.offsets] ELSE infoOffsets
    /\ infoLengths' = IF r.outcome = "ok" THEN [f \in {id} |-> r.lengths] ELSE infoLengths
    /\ ev' = [op |-> "load:index", id |-> id, outcome |-> r.outcome]

\* loadIndices, lines 524-535, for the fingerprint id.
LoadInfoIndices(id) ==
    /\ ~crashed
    /\ id \notin DOMAIN infoOffsets
    /\ IF countLines(InfoIndicesFile).fatal
       THEN StoreIndex(id, [outcome |-> "fatal"])
       ELSE StoreIndex(id, readIndexFile(InfoIndicesFile,
                                           countLines(InfoIndicesFile).count))
    /\ UNCHANGED <<fs, variantIndices, stats, conns>>

\* The bins and the statistics of the variant after readVariantIndexFile
\* read r: calcStats (line 796) divides by the number of bins.
StoreBins(id, r) ==
    /\ crashed' = (r.outcome # "ok" \/ Len(r.bins) = 0)
    /\ variantIndices' = IF r.outcome = "ok" THEN [v \in {id} |-> r.bins] ELSE variantIndices
    /\ stats' = IF r.outcome = "ok" /\ Len(r.bins) > 0
                THEN [v \in {id} |-> calcStatsOf(r.bins)] ELSE stats
    /\ ev' = [op |-> "load:bins", id |-> id,
              outcome |-> IF r.outcome = "ok" /\ Len(r.bins) = 0 THEN "panic" ELSE r.outcome]

\* loadIndices, lines 541-548, for the variant id of a loaded fingerprint.
LoadVariantIndices(fingerprintId, id) ==
    /\ ~crashed
    /\ fingerprintId \in DOMAIN infoOffsets
    /\ id \notin DOMAIN variantIndices
    /\ IF countLines(IndicesFile).fatal
       THEN StoreBins(id, [outcome |-> "fatal"])
       ELSE StoreBins(id, readVariantIndexFile(IndicesFile,
                                                 countLines(IndicesFile).count))
    /\ UNCHANGED <<fs, infoOffsets, infoLengths, conns>>

\* loadIndices has returned.
Loaded == FpId \in DOMAIN infoOffsets /\ VarId \in DOMAIN stats

\* main, lines 511-515: the server listens once loadIndices has returned,
\* and serveUnderdark runs for a connection made.
Listen == Loaded /\ serveUnderdark(1)

NextLoad == LoadInfoIndices(FpId) \/ LoadVariantIndices(FpId, VarId) \/ Listen

SpecLoad == InitLoad /\ [][NextLoad]_vars

(***************************************************************************)
(* Properties of the connection layer                                      *)
(***************************************************************************)

\* Everything one connection owns.
ConnState(c) ==
    <<rpc[c], wpc[c], send[c], chClosed[c], connClosed[c], peerGone[c],
      readLeft[c], tickLeft[c], tickPending[c], pongDue[c], nRecv[c],
      lastResp[c], respSinceTick[c], rexit[c], wexit[c]>>

\* The events that end or damage a connection: a read that fails (decode
\* failure, peer close, deadline passed), an overflow of the queue and the
\* send that follows it, a failed write of a response or a ping, the close
\* frame, and the loss of the peer.
FailureEvent(e) ==
    \/ e.op \in {"readerror", "peerlost", "closeframe"}
    \/ e.op = "request" /\ e.how \in {"close", "panic"}
    \/ e.op = "dispatch" /\ e.err
    \/ e.op = "tick" /\ e.ping /\ ~e.delivered

\* C1: a decode failure, write failure, peer timeout or queue overflow on
\* one connection changes nothing that another connection owns (its tasks,
\* its queue, its deadline stay as they were, so it goes on being served),
\* and the serving process keeps running.
C1_OnlyThatConnection ==
    [][ /\ ~crashed'
        /\ \A d \in Conns :
              (FailureEvent(ev') /\ ev'.c # d) => ConnState(d)' = ConnState(d)
      ]_vars

\* C1 happens: the first connection has overflowed and its reader has
\* panicked, and the second connection has just had a request answered.
C1_Witness ==
    /\ rexit[1] = "panic"
    /\ ~crashed
    /\ ev.op = "dispatch" /\ ev.c = 2 /\ ev.written # <<>>
    /\ rpc[2] = "read" /\ wpc[2] = "run"

\* C2, as amended: a request decoded while the queue is full is neither
\* waited on nor queued, the queue is closed and the reader is back in its
\* loop; and the writer of a closed queue eventually stops, through the
\* close-frame branch once the queue is drained or through a ping whose
\* write fails before that.
C2_OverflowCloses ==
    /\ [][ (ev'.op = "request" /\ Len(send[ev'.c]) = QueueCap /\ ~chClosed[ev'.c])
              => /\ ev'.how = "close"
                 /\ send'[ev'.c] = send[ev'.c]
                 /\ chClosed'[ev'.c]
                 /\ rpc'[ev'.c] = "read"
         ]_vars
    /\ (chClosed[1] /\ wpc[1] = "run")
          ~> (wpc[1] = "done" /\ wexit[1] \in {"close", "ping"})

\* C2 happens: the queue overflowed and the writer, having drained it, took
\* the close-frame branch.
C2_Witness ==
    /\ ev.op = "closeframe" /\ ev.c = 1
    /\ chClosed[1] /\ send[1] = <<>>
    /\ nRecv[1] > QueueCap
    /\ wexit[1] = "close"

\* C2, as stated: once the queue is closed the writer eventually takes the
\* close-frame branch.
C2_CloseFrameAlways ==
    (chClosed[1] /\ wpc[1] = "run") ~> (wexit[1] = "close")

\* C3: responses leave in the order their requests were queued; whenever a
\* response is written it belongs to a later request than the response
\* before it, and every request still queued is later still.
C3_ResponsesInOrder ==
    [][ \A c \in Conns :
           lastResp'[c] # lastResp[c]
              => /\ lastResp'[c] > lastResp[c]
                 /\ \A i \in 1..Len(send'[c]) : send'[c][i].id > lastResp'[c]
      ]_vars

\* C3 happens: the response to the first request is written while a later
\* request waits in the queue.
C3_Witness ==
    /\ ev.op = "dispatch" /\ ev.id = 1 /\ ev.written # <<>>
    /\ lastResp[ev.c] = 1
    /\ send[ev.c] # <<>>

\* C4, as stated: when the write of a response fails the writer stops.
C4_WriteErrorStops ==
    (ev.op = "dispatch" /\ ev.err) => wpc[ev.c] = "done"

\* C4, the rest as stated: no request is dispatched once a write has failed.
C4_NoDispatchAfterError ==
    [][ (ev.op = "dispatch" /\ ev.err) => ~(ev'.op = "dispatch" /\ ev'.c = ev.c) ]_vars

\* C5: a read that fails ends the reader for good, and under fair
\* scheduling the writer of that connection ends too.
C5_BothTasksStop ==
    /\ [][ \A c \in Conns :
              /\ (ev'.op = "readerror" /\ ev'.c = c) => rpc'[c] = "done"
              /\ rpc[c] = "done" => rpc'[c] = "done"
         ]_vars
    /\ (rexit[1] = "error") ~> (wpc[1] = "done")

\* C5 happens: the reader ended on a failed read and the writer ended at
\* the tick whose ping could not be written.
C5_Witness ==
    /\ rexit[1] = "error" /\ rpc[1] = "done"
    /\ wpc[1] = "done" /\ wexit[1] = "ping"

\* C6: a request taken from the queue with one of the seven commands runs
\* one handler, the one of its command, and (the connection being writable)
\* one response is written; with any other command no handler runs, nothing
\* is written and the writer and the connection are left as they were.
C6_OneHandlerOneResponse ==
    [][ ev'.op = "dispatch" =>
           IF ev'.cmd \in Known
           THEN /\ Len(ev'.handlers) = 1 /\ ev'.calls = 1
                /\ Len(ev'.written) <= 1
                /\ (WriteOk(ev'.c) /\ ~ev'.panicked)
                      => /\ Len(ev'.written) = 1
                         /\ ev'.written[1].Command = ev'.cmd
           ELSE /\ ev'.handlers = <<>> /\ ev'.calls = 0 /\ ev'.written = <<>>
                /\ ~ev'.err /\ ~ev'.panicked
                /\ wpc'[ev'.c] = "run"
                /\ connClosed'[ev'.c] = connClosed[ev'.c]
                /\ lastResp'[ev'.c] = lastResp[ev'.c]
      ]_vars

\* C6 happens: a request with an unknown command has been taken from the
\* queue on an open connection, and the next request waits behind it.
C6_Witness ==
    /\ ev.op = "dispatch" /\ ev.cmd \notin Known
    /\ wpc[ev.c] = "run" /\ ~connClosed[ev.c]
    /\ send[ev.c] # <<>>

\* C7, as amended: at every tick it handles the writer writes a ping,
\* whether or not a response was written since the tick before.
C7_PingAtEveryTick ==
    ev.op = "tick" => ev.ping

\* C7 happens: a ping is written at a tick that follows a response.
C7_Witness ==
    ev.op = "tick" /\ ev.ping /\ ev.delivered /\ ev.afterResponse

\* C7, as stated: a ping is written at a tick exactly when no response was
\* written since the tick before.
C7_PingOnlyWhenQuiet ==
    ev.op = "tick" => (ev.ping <=> ~ev.afterResponse)

\* C8: the read deadline is set when the reader starts and moved afterwards
\* only by the pong handler; time only brings it nearer, and a request that
\* is read and queued leaves it where it was.
C8_DeadlineOnlyByPong ==
    [][ \A c \in Conns :
           /\ readLeft'[c] > readLeft[c]
                 => /\ ev'.op \in {"serve", "pong"} /\ ev'.c = c
                    /\ readLeft'[c] = PongWait
           /\ readLeft'[c] < readLeft[c]
                 => ev'.op = "advance" /\ readLeft'[c] = readLeft[c] - 1
           /\ (ev'.op = "request" /\ ev'.c = c) => readLeft'[c] = readLeft[c]
      ]_vars

\* C8 happens: a request is queued on a connection whose deadline has
\* already come nearer.
C8_Witness ==
    /\ ev.op = "request" /\ ev.how = "enqueue"
    /\ readLeft[ev.c] > 0 /\ readLeft[ev.c] < PongWait

(***************************************************************************)
(* Properties of the handlers                                              *)
(***************************************************************************)

\* An ordinal as the client wrote it names one of n bins (n below ten): it
\* is a single digit below n.
ValidOrdinal(text, n) ==
    Len(text) = 1 /\ IsDigit(text[1]) /\ DigitVal(text[1]) < n

\* C9, as stated: load:binpreview with an ordinal that names no bin of the
\* variant (at or past the bin count, or below zero) does not fault and
\* returns bin size "0" with empty smiles and index.
C9_PreviewOutOfRange ==
    (/\ ev.op = "call" /\ ev.handler = "underdarkLoadBinPreview"
     /\ ~ValidOrdinal(ev.texts[1], ev.nBins))
       => /\ ~IsFault(ev.result)
          /\ ev.result = NoPreview

\* C9 where it holds: an ordinal at or past the bin count is answered with
\* bin size "0" and empty fields.
C9_Witness ==
    /\ ev.op = "call" /\ ev.handler = "underdarkLoadBinPreview"
    /\ ev.nBins > 0
    /\ ev.texts[1] = <<"7">>
    /\ ev.result = NoPreview

\* C10, as stated: load:bin on a list with an ordinal, at any position,
\* that names no bin of the variant does not fault and returns the empty
\* result.
C10_BinOutOfRange ==
    (/\ ev.op = "call" /\ ev.handler = "underdarkLoadBin"
     /\ \E i \in 1..Len(ev.texts) : ~ValidOrdinal(ev.texts[i], ev.nBins))
       => /\ ~IsFault(ev.result)
          /\ ev.result = NoBin(ev.data[4])

\* C10 where it holds: a list whose second ordinal is past the last bin is
\* answered with the empty result.
C10_Witness ==
    /\ ev.op = "call" /\ ev.handler = "underdarkLoadBin"
    /\ Len(ev.texts) = 2
    /\ ev.texts[1] = <<"0">> /\ ev.texts[2] = <<"7">>
    /\ ev.nBins > 0
    /\ ev.result = NoBin(ev.data[4])

\* The fields of the four records of the catalog, by compound ordinal.
ExampleFields ==
    << <<<<"A">>, <<"a">>, <<"1">>, <<"w">>>>,
       <<<<"B">>, <<"b">>, <<"2">>, <<"x">>>>,
       <<<<"C">>, <<"c">>, <<"3">>, <<"y">>>>,
       <<<<"D">>, <<"d">>, <<"4">>, <<"z">>>> >>

\* The members of the bins bs of a bin table, in the order of bs.
RECURSIVE ListedMembers(_, _)
ListedMembers(bins, bs) ==
    IF bs = <<>> THEN <<>>
    ELSE bins[Head(bs) + 1] \o ListedMembers(bins, Tail(bs))

\* For each of those members the bin it was listed under.
RECURSIVE ListedOrigins(_, _)
ListedOrigins(bins, bs) ==
    IF bs = <<>> THEN <<>>
    ELSE [j \in 1..Len(bins[Head(bs) + 1]) |-> Head(bs)] \o ListedOrigins(bins, Tail(bs))

\* A call of load:bin whose every listed ordinal names a bin of the variant.
LoadBinInRange ==
    /\ ev.op = "call" /\ ev.handler = "underdarkLoadBin"
    /\ \A i \in 1..Len(ev.texts) : ValidOrdinal(ev.texts[i], ev.nBins)

\* The bin ordinals a call lists, as numbers.
ListedBins == [i \in 1..Len(ev.texts) |-> DigitVal(ev.texts[i][1])]

\* C11: for a list of in-range ordinals load:bin returns as many records as
\* the listed bins have members together, reports that number as the bin
\* size, gives each record the bin it was listed under (bins in listed
\* order, members in bin order), and the i-th record is the record of the
\* i-th member.
C11_ListedBinsInOrder ==
    LoadBinInRange =>
       /\ ~IsFault(ev.result)
       /\ LET members == ListedMembers(variantIndices[ev.data[3]], ListedBins)
          IN  /\ Len(ev.result.Ids) = Len(members)
              /\ Len(ev.result.Smiles) = Len(members)
              /\ Len(ev.result.Fps) = Len(members)
              /\ Len(ev.result.Coords) = Len(members)
              /\ ev.result.BinSize = Itoa(Len(members))
              /\ ev.result.BinIndices =
                    ListedOrigins(variantIndices[ev.data[3]], ListedBins)
              /\ \A i \in 1..Len(members) :
                    ev.result.Ids[i] = ExampleFields[members[i] + 1][1]

\* C11 happens: a later bin with two members is listed before an earlier
\* bin with one.
C11_Witness ==
    /\ LoadBinInRange
    /\ ev.texts = <<<<"2">>, <<"1">>>>
    /\ ev.result.BinIndices = <<2, 2, 1>>
    /\ ev.result.BinSize = <<"3">>

\* C12, as stated: the four arrays of load:bin hold the id, the structure,
\* the fingerprint string and the coordinates of the record of each member.
C12_FieldsOfRecord ==
    LoadBinInRange =>
       /\ ~IsFault(ev.result)
       /\ LET members == ListedMembers(variantIndices[ev.data[3]], ListedBins)
          IN  \A i \in 1..Len(members) :
                 /\ ev.result.Ids[i]    = ExampleFields[members[i] + 1][1]
                 /\ ev.result.Smiles[i] = ExampleFields[members[i] + 1][2]
                 /\ ev.result.Fps[i]    = ExampleFields[members[i] + 1][3]
                 /\ ev.result.Coords[i] = ExampleFields[members[i] + 1][4]

\* C12 where it holds: the id, structure and fingerprint string of a
\* returned record are those of the member.
C12_Witness ==
    /\ LoadBinInRange
    /\ Len(ev.result.Ids) > 0
    /\ ev.result.Ids[1] = <<"D">>
    /\ ev.result.Smiles[1] = <<"d">>
    /\ ev.result.Fps[1] = <<"4">>

\* C13, as amended: in the example catalog load:bin with the ordinals
\* "0,2" returns the members of bin 0 and of bin 2, the ids A, B, D, with
\* the origin bins 0, 0, 2.
C13_ExampleLoadBin ==
    (/\ ev.op = "dispatch" /\ ev.cmd = "load:bin"
     /\ ev.written # <<>>)
       => /\ ev.written[1].Index = <<"0", ",", "2">>
          /\ ev.written[1].Ids = <<<<"A">>, <<"B">>, <<"D">>>>
          /\ ev.written[1].BinIndices = <<0, 0, 2>>

\* C13, as stated: the ids returned are A, B, C with the origin bins
\* 0, 0, 2.
C13_ExampleAsStated ==
    (/\ ev.op = "dispatch" /\ ev.cmd = "load:bin"
     /\ ev.written # <<>>)
       => /\ ev.written[1].Ids = <<<<"A">>, <<"B">>, <<"C">>>>
          /\ ev.written[1].BinIndices = <<0, 0, 2>>

\* C13 happens: the response to load:bin "0,2" is written.
C13_Witness ==
    /\ ev.op = "dispatch" /\ ev.cmd = "load:bin"
    /\ ev.written # <<>>
    /\ variantIndices[VarId] = ExampleBins
    /\ ev.written[1].BinSize = <<"3">>

\* C14, as amended: in the example catalog search:infos for the term C
\* returns for that term the list with the one bin ordinal 1, the position
\* of the bin that holds the compound 2 whose id is C.
C14_ExampleSearch ==
    (/\ ev.op = "dispatch" /\ ev.cmd = "search:infos"
     /\ ev.written # <<>>)
       => /\ ev.written[1].SearchTerms = <<<<"C">>>>
          /\ ev.written[1].BinIndices = <<<<1>>>>

\* C14 happens: the response to the search for C is written, all four
\* records having been read.
C14_Witness ==
    /\ ev.op = "dispatch" /\ ev.cmd = "search:infos"
    /\ ev.written # <<>>
    /\ variantIndices[VarId] = ExampleBins
    /\ ev.written[1].Reads = 4

\* C14, as stated: the list returned for the term C is the one bin
\* ordinal 2.
C14_ExampleAsStated ==
    (/\ ev.op = "dispatch" /\ ev.cmd = "search:infos"
     /\ ev.written # <<>>)
       => ev.written[1].BinIndices = <<<<2>>>>

\* A call of search:infos whose terms are all empty strings, or none.
SearchNoTerms ==
    /\ ev.op = "call" /\ ev.handler = "underdarkSearch"
    /\ \A i \in 1..Len(ev.texts) : ev.texts[i] = <<>>

\* C15, as stated: a search whose term list is empty once the empty
\* strings are dropped returns no per-term list and fetches no record.
C15_NoTermsNoReads ==
    SearchNoTerms =>
       /\ ~IsFault(ev.result)
       /\ ev.result.BinIndices = <<>>
       /\ ev.result.SearchTerms = <<>>
       /\ ev.result.Reads = 0

\* C15 where it holds: a search with only empty strings returns no
\* per-term list.
C15_Witness ==
    /\ SearchNoTerms
    /\ Len(ev.texts) = 2
    /\ ev.result.BinIndices = <<>>
    /\ ev.result.SearchTerms = <<>>

\* The records file of the fingerprint as a request finds it.
InfosNow == Open(InfosFileOf(FpId))

\* What reading the record of compound k (a position of the tables) gives.
RecordRead(k) == ReadAt(InfosNow, infoLengths[FpId][k + 1], infoOffsets[FpId][k + 1])

\* Reading the record of compound k fails: no file, or fewer bytes than
\* the record has.
ReadFails(k) == ~InfosNow.ok \/ RecordRead(k).n < infoLengths[FpId][k + 1]

\* The space-separated fields of the record of compound k, read whole.
FieldsRead(k) == Split(SubSeq(RecordRead(k).buf, 1, RecordRead(k).n - 1), " ")

\* A call of load:binpreview whose ordinal names a bin that has members.
PreviewInRange ==
    /\ ev.op = "call" /\ ev.handler = "underdarkLoadBinPreview"
    /\ ValidOrdinal(ev.texts[1], ev.nBins)
    /\ variantIndices[ev.data[3]][DigitVal(ev.texts[1][1]) + 1] # <<>>

\* The compound whose record that call fetches: the first member of the bin.
PreviewMember == variantIndices[ev.data[3]][DigitVal(ev.texts[1][1]) + 1][1]

\* The compounds whose records a call of load:bin fetches.
LoadBinMembers == ListedMembers(variantIndices[ev.data[3]], ListedBins)

\* C16, as stated: when the records file cannot be opened or the read of a
\* record fails, the search returns without a fault and with no bin-ordinal
\* list for any term.
C16_SearchFailsWhole ==
    (/\ ev.op = "call" /\ ev.handler = "underdarkSearch"
     /\ \E k \in 0..(Len(infoOffsets[FpId]) - 1) : ReadFails(k))
       => /\ ~IsFault(ev.result)
          /\ ev.result.BinIndices = <<>>

\* The file a handler needs cannot be opened.
NeededFileMissing ==
    CASE ev.handler = "underdarkLoadVariant" ->
            MapGet(variants, ev.data[1], [CoordinatesFile |-> ""]).CoordinatesFile
               \notin DOMAIN fs
      [] ev.handler = "underdarkLoadMap" ->
            MapGet(colorMaps, ev.data[1], [MapFile |-> ""]).MapFile \notin DOMAIN fs
      [] ev.handler \in {"underdarkLoadBinPreview", "underdarkLoadBin"} ->
            InfosFileOf(ev.data[2]) \notin DOMAIN fs
      [] OTHER -> FALSE

\* C17, as stated: load:variant, load:map, load:binpreview and load:bin
\* return a response without data, and do not fault, when the file they
\* need cannot be opened.
C17_MissingFileNoFault ==
    (ev.op = "call" /\ NeededFileMissing)
       => /\ ~IsFault(ev.result)
          /\ CASE ev.handler \in {"underdarkLoadVariant", "underdarkLoadMap"} ->
                     ev.result.Content = <<>>
               [] ev.handler = "underdarkLoadBinPreview" -> ev.result.Smiles = <<>>
               [] OTHER -> ev.result.Ids = <<>>

\* C17 where it holds: load:variant, its coordinates file gone, answers
\* with empty content.
C17_Witness ==
    /\ ev.op = "call" /\ ev.handler = "underdarkLoadVariant"
    /\ ev.data[1] = VarId
    /\ NeededFileMissing
    /\ ev.result.Content = <<>>

\* C18, as stated: when a record fetched for load:binpreview or load:bin
\* has fewer fields than the handler reads from it (two for the preview,
\* three for the bin), the response is the degenerate one and nothing
\* faults.
C18_ShortRecordDegenerate ==
    /\ (/\ PreviewInRange
        /\ PreviewMember < Len(infoOffsets[FpId])
        /\ ~ReadFails(PreviewMember)
        /\ Len(FieldsRead(PreviewMember)) < 2)
          => ev.result = NoPreview
    /\ (/\ LoadBinInRange
        /\ \A i \in 1..Len(LoadBinMembers) :
              LoadBinMembers[i] < Len(infoOffsets[FpId]) /\ ~ReadFails(LoadBinMembers[i])
        /\ \E i \in 1..Len(LoadBinMembers) : Len(FieldsRead(LoadBinMembers[i])) < 3)
          => ev.result = NoBin(ev.data[4])

\* C18 where it holds: load:bin that meets a record of two fields returns
\* the degenerate response.
C18_Witness ==
    /\ LoadBinInRange
    /\ ev.texts = <<<<"0">>, <<"2">>>>
    /\ infoLengths[FpId] = <<8, 2, 4, 1>>
    /\ ev.result = NoBin(ev.data[4])

\* C19, as stated: a compound ordinal at or past the length of the
\* fingerprint's offset and length tables is never used as an index into
\* them (in the program such an index is a panic).
C19_OrdinalChecked ==
    /\ (PreviewInRange /\ PreviewMember >= Len(infoOffsets[FpId]))
          => ~IsFault(ev.result)
    /\ (/\ LoadBinInRange
        /\ \E i \in 1..Len(LoadBinMembers) : LoadBinMembers[i] >= Len(infoOffsets[FpId]))
          => ~IsFault(ev.result)

(***************************************************************************)
(* Properties of the statistics                                            *)
(***************************************************************************)

\* The populations of the first n bins, added up.
RECURSIVE MembersUpTo(_, _)
MembersUpTo(bins, n) == IF n = 0 THEN 0 ELSE Len(bins[n]) + MembersUpTo(bins, n - 1)

\* The largest population of a bin of a table with bins.
LargestBin(bins) ==
    CHOOSE n \in {Len(bins[i]) : i \in 1..Len(bins)} :
        \A i \in 1..Len(bins) : Len(bins[i]) <= n

\* C20: the histogram of every loaded variant has one entry for each
\* population from 0 to the largest, entry k is the number of bins with
\* exactly k members, and the compound count is the sum of the populations.
C20_HistogramAndCount ==
    \A v \in DOMAIN stats :
        /\ Len(stats[v].BinHist) = LargestBin(variantIndices[v]) + 1
        /\ \A k \in 0..LargestBin(variantIndices[v]) :
              stats[v].BinHist[k + 1] =
                 Cardinality({i \in 1..Len(variantIndices[v]) :
                                 Len(variantIndices[v][i]) = k})
        /\ stats[v].CompoundCount =
              MembersUpTo(variantIndices[v], Len(variantIndices[v]))

\* C20 happens: the statistics of a variant with one empty bin and two
\* bins of two members have been stored.
C20_Witness ==
    /\ VarId \in DOMAIN stats
    /\ ev.op = "stats"
    /\ stats[VarId].BinHist = <<1, 0, 2>>
    /\ stats[VarId].CompoundCount = 4

(***************************************************************************)
(* Properties of startup loading                                           *)
(***************************************************************************)

\* A field of an index line that is a number: digits, at least one.
IsNumber(s) == s # <<>> /\ \A i \in 1..Len(s) : IsDigit(s[i])

\* The number a string of digits writes.
RECURSIVE NumberWritten(_)
NumberWritten(s) ==
    IF s = <<>> THEN 0
    ELSE 10 * NumberWritten(SubSeq(s, 1, Len(s) - 1)) + DigitVal(s[Len(s)])

\* The lines of an index file of the data directory, each as its fields.
FieldsOfIndex(path) ==
    IF path \in DOMAIN fs
    THEN [i \in 1..Len(ScanLines(fs[path])) |-> Split(ScanLines(fs[path])[i], ",")]
    ELSE <<>>

\* An index file of the data directory holds a value that is no number.
HasUnparsable ==
    \/ \E i \in 1..Len(FieldsOfIndex(InfoIndicesFile)) :
          \E j \in 1..Len(FieldsOfIndex(InfoIndicesFile)[i]) :
              j <= 2 /\ ~IsNumber(FieldsOfIndex(InfoIndicesFile)[i][j])
    \/ \E i \in 1..Len(FieldsOfIndex(IndicesFile)) :
          \E j \in 1..Len(FieldsOfIndex(IndicesFile)[i]) :
              ~IsNumber(FieldsOfIndex(IndicesFile)[i][j])

\* C21, as stated: when an index file holds an offset, a length or a
\* compound ordinal that is no number, the process ends during loading: no
\* connection is ever accepted.
C21_ParseFailureFatal ==
    HasUnparsable => \A c \in Conns : rpc[c] = "idle"

\* The record index is there and each of its lines has two fields or more.
RecordIndexTwoFields ==
    /\ InfoIndicesFile \in DOMAIN fs
    /\ \A i \in 1..Len(FieldsOfIndex(InfoIndicesFile)) :
          Len(FieldsOfIndex(InfoIndicesFile)[i]) >= 2

\* C22, as stated: whether or not the last line of an index file ends with
\* a line separator, the table sized by the count of separators has one
\* entry for each line the scanner yields; the parse writes no entry past
\* the end of the table, and entry i is what line i parses to.
C22_PassesAgree ==
    /\ (ev.op = "load:index" /\ RecordIndexTwoFields) =>
          /\ ev.outcome = "ok"
          /\ Len(infoOffsets[FpId]) = Len(FieldsOfIndex(InfoIndicesFile))
          /\ Len(infoLengths[FpId]) = Len(FieldsOfIndex(InfoIndicesFile))
          /\ \A i \in 1..Len(FieldsOfIndex(InfoIndicesFile)) :
                /\ infoOffsets[FpId][i] =
                      NatOf(ParseUint(FieldsOfIndex(InfoIndicesFile)[i][1], 64))
                /\ infoLengths[FpId][i] =
                      NatOf(ParseUint(FieldsOfIndex(InfoIndicesFile)[i][2], 16))
    /\ (ev.op = "load:bins" /\ Len(FieldsOfIndex(IndicesFile)) > 0) =>
          /\ ev.outcome = "ok"
          /\ Len(variantIndices[VarId]) = Len(FieldsOfIndex(IndicesFile))
          /\ \A i \in 1..Len(FieldsOfIndex(IndicesFile)) :
                Len(variantIndices[VarId][i]) = Len(FieldsOfIndex(IndicesFile)[i])

\* C22 where it holds: a record index of two lines, the last one ended by a
\* line separator, is loaded into tables of two entries.
C22_Witness ==
    /\ ev.op = "load:index" /\ ev.outcome = "ok"
    /\ fs[InfoIndicesFile] = ExampleRecordIndex
    /\ infoOffsets[FpId] = <<0, 8>>
    /\ infoLengths[FpId] = <<8, 8>>

\* C27, as stated: every entry of the loaded record index holds the two
\* numbers of its line, for every length that fits 32 bits.
C27_EntryHoldsLine ==
    (ev.op = "load:index" /\ ev.outcome = "ok") =>
        \A i \in 1..Len(FieldsOfIndex(InfoIndicesFile)) :
            (IsNumber(FieldsOfIndex(InfoIndicesFile)[i][1]) /\
             IsNumber(FieldsOfIndex(InfoIndicesFile)[i][2])) =>
                /\ infoOffsets[FpId][i] = NumberWritten(FieldsOfIndex(InfoIndicesFile)[i][1])
                /\ infoLengths[FpId][i] = NumberWritten(FieldsOfIndex(InfoIndicesFile)[i][2])

\* C27 where it holds: the length 65535 is loaded as written.
C27_Witness ==
    /\ ev.op = "load:index" /\ ev.outcome = "ok"
    /\ fs[InfoIndicesFile] = Unlines(<<<<"0", ",", "6", "5", "5", "3", "5">>>>, TRUE)
    /\ infoLengths[FpId] = <<65535>>

\* The smallest population of a bin of a table with bins.
SmallestBin(bins) ==
    CHOOSE n \in {Len(bins[i]) : i \in 1..Len(bins)} :
        \A i \in 1..Len(bins) : n <= Len(bins[i])

\* C25, as stated: the smallest and the largest bin population of every
\* loaded variant are its HistMin and HistMax, whatever the populations.
C25_Extremes ==
    \A v \in DOMAIN stats :
        /\ stats[v].HistMin = SmallestBin(variantIndices[v])
        /\ stats[v].HistMax = LargestBin(variantIndices[v])

\* C25 where it holds: bins of 9998 members and fewer.
C25_Witness ==
    /\ VarId \in DOMAIN stats
    /\ ev.op = "stats"
    /\ Len(variantIndices[VarId]) = 1
    /\ stats[VarId].HistMin = HistMinStart - 1
    /\ stats[VarId].HistMax = HistMinStart - 1

\* C26: the average bin size of every loaded variant is the quotient of
\* its compound count by its bin count without the fraction: the largest
\* integer a with a * bins <= compounds.
C26_AverageTruncated ==
    \A v \in DOMAIN stats :
        /\ stats[v].AvgBinSize * Len(variantIndices[v]) <=
              MembersUpTo(variantIndices[v], Len(variantIndices[v]))
        /\ (stats[v].AvgBinSize + 1) * Len(variantIndices[v]) >
              MembersUpTo(variantIndices[v], Len(variantIndices[v]))

\* C26 happens: five compounds in three bins are stored with the average 1.
C26_Witness ==
    /\ VarId \in DOMAIN stats
    /\ ev.op = "stats"
    /\ stats[VarId].CompoundCount = 5
    /\ stats[VarId].BinCount = 3
    /\ stats[VarId].AvgBinSize = 1

(***************************************************************************)
(* Properties of the search                                                *)
(***************************************************************************)

\* The compound m has a record whose id or structure is the term t.
RecordMatches(m, t) ==
    /\ m < Len(infoOffsets[FpId])
    /\ FieldsRead(m)[1] = t \/ FieldsRead(m)[2] = t

\* The terms of a request that are not the empty string, in their order.
RECURSIVE NonEmptyTerms(_)
NonEmptyTerms(terms) ==
    IF terms = <<>> THEN <<>>
    ELSE IF Head(terms) = <<>> THEN NonEmptyTerms(Tail(terms))
    ELSE <<Head(terms)>> \o NonEmptyTerms(Tail(terms))

\* The bins of the variant a search names.
SearchedBins == MapGet(variantIndices, ev.data[2], NoBins)

\* C24: a search answers with the terms that are not empty and one list
\* for each, in their order; the list of a term holds the ordinal of a bin
\* once for every member of the bin whose record has the term as its id or
\* as its structure (a record that has it as both counts once, nothing is
\* taken out for being there twice), and the ordinals in it never decrease.
C24_SearchLists ==
    (ev.op = "call" /\ ev.handler = "underdarkSearch") =>
        /\ ~IsFault(ev.result)
        /\ ev.result.SearchTerms = NonEmptyTerms(ev.texts)
        /\ Len(ev.result.BinIndices) = Len(ev.result.SearchTerms)
        /\ \A k \in 1..Len(ev.result.BinIndices) :
              /\ \A p \in 1..Len(ev.result.BinIndices[k]) :
                    ev.result.BinIndices[k][p] \in 0..(Len(SearchedBins) - 1)
              /\ \A b \in 1..Len(SearchedBins) :
                    Cardinality({p \in 1..Len(ev.result.BinIndices[k]) :
                                    ev.result.BinIndices[k][p] = b - 1})
                    = Cardinality({j \in 1..Len(SearchedBins[b]) :
                                      RecordMatches(SearchedBins[b][j],
                                                    ev.result.SearchTerms[k])})
              /\ \A p, q \in 1..Len(ev.result.BinIndices[k]) :
                    p < q => ev.result.BinIndices[k][p] <= ev.result.BinIndices[k][q]

\* C24 happens: the terms c, the empty string and a are searched in the
\* bins of the example; c is the id and the structure of one record of bin
\* 2, a is a field of both members of bin 0 and of the member of bin 1.
C24_Witness ==
    /\ ev.op = "call" /\ ev.handler = "underdarkSearch"
    /\ variantIndices[VarId] = ExampleBins
    /\ ev.texts = <<<<"c">>, <<>>, <<"a">>>>
    /\ ev.result.SearchTerms = <<<<"c">>, <<"a">>>>
    /\ ev.result.BinIndices = <<<<2>>, <<0, 0, 1>>>>

(***************************************************************************)
(* Properties of the shared tables                                         *)
(***************************************************************************)

\* C23: no step of any connection changes the data directory, the offset
\* and length tables, the bin tables or the statistics; load:bin, which
\* appends bins to the slice of the first bin it lists, leaves the members
\* of every bin as they were loaded.
C23_TablesImmutable ==
    [][tables' = tables]_vars

\* C23 happens: both connections have had a load:bin request for several
\* bins answered, the second one just now.
C23_Witness ==
    /\ ev.op = "dispatch" /\ ev.c = 2 /\ ev.cmd = "load:bin"
    /\ ev.written # <<>>
    /\ ev.written[1].BinSize = <<"4">>
    /\ lastResp[1] = 2
    /\ variantIndices[VarId] = ExampleBins

(***************************************************************************)
(* Properties of the overflowed queue                                      *)
(***************************************************************************)

\* C28, as stated: once the reader has closed the queue it offers it no
\* further request and does not close it again, whatever the peer sends.
C28_NoEnqueueAfterClose ==
    [][ \A c \in Conns :
           chClosed[c] => ~(ev'.op = "request" /\ ev'.c = c) ]_vars

\* C28 where it holds: the peer of a closed queue sends nothing more, and
\* the reader ends on a failed read with the queue closed once.
C28_Witness ==
    /\ ev.op = "readerror"
    /\ chClosed[ev.c]
    /\ nRecv[ev.c] = QueueCap + 1
    /\ rexit[ev.c] = "error"

\* C29: the request that finds the queue full is not queued, and the
\* queued ones are older; the writer takes the queued requests from the
\* front, one at a time, and answers each one whose command has a handler
\* while the connection takes what is written; it takes the close-frame
\* branch only when the closed queue is empty, and ends there: nothing is
\* dispatched, answered or pinged on the connection after it.
C29_DrainedBeforeCloseFrame ==
    [][ /\ (ev'.op = "request" /\ ev'.how = "close") =>
              /\ send'[ev'.c] = send[ev'.c]
              /\ \A i \in 1..Len(send[ev'.c]) : send[ev'.c][i].id < ev'.id
        /\ ev'.op = "dispatch" =>
              /\ send[ev'.c] # <<>>
              /\ ev'.id = send[ev'.c][1].id
              /\ send'[ev'.c] = Tail(send[ev'.c])
              /\ (ev'.cmd \in Known /\ WriteOk(ev'.c)) =>
                    (Len(ev'.written) = 1 /\ lastResp'[ev'.c] = ev'.id)
        /\ ev'.op = "closeframe" =>
              /\ chClosed[ev'.c] /\ send[ev'.c] = <<>>
              /\ wpc'[ev'.c] = "done"
        /\ \A c \in Conns :
              wexit[c] = "close" =>
                 /\ lastResp'[c] = lastResp[c]
                 /\ ~(ev'.op \in {"dispatch", "tick", "closeframe"} /\ ev'.c = c)
      ]_vars

\* C29 happens: two requests were queued, the third found the queue full,
\* both queued ones were answered and the close frame was then sent.
C29_Witness ==
    /\ ev.op = "closeframe" /\ ev.c = 1 /\ ev.delivered
    /\ nRecv[1] = QueueCap + 1
    /\ lastResp[1] = QueueCap
    /\ rpc[1] = "read"

(***************************************************************************)
(* Properties of the argument lists                                        *)
(***************************************************************************)

\* C30, as stated: no request faults its handler, however short its
\* argument list: the writer and the process go on.
C30_ShortArgumentsNoFault ==
    ev.op = "dispatch" => (~ev.panicked /\ ~crashed /\ wpc[ev.c] = "run")

\* C30 where it holds: a search that names its fingerprint and its variant
\* and no term is answered, as the second response of the connection.
C30_Witness ==
    /\ ev.op = "dispatch" /\ ~crashed
    /\ ev.cmd = "search:infos"
    /\ ev.written # <<>>
    /\ ev.written[1].SearchTerms = <<>>
    /\ lastResp[ev.c] = 2

=============================================================================
